---- MODULE Spec2Model ----
(***************************************************************************)
(* GMLAS driver (schema-driven XML -> relational mapping) as exercised by  *)
(* autotest/ogr/ogr_gmlas.py.                                              *)
(*                                                                         *)
(* The repository's sources are the driver's test-suite: the fixtures      *)
(* (instance documents, schemas, configuration documents, open options)    *)
(* and the calls the tests make are translated from ogr_gmlas.py.  The     *)
(* driver behind gdal.OpenEx / GetNextFeature is not part of the sources;  *)
(* its operations are modelled from the design document (sections 4.1 -    *)
(* 4.5, 6, 7) and are kept consistent with every outcome the tests assert. *)
(***************************************************************************)
EXTENDS Naturals, Sequences, FiniteSets, TLC

\* Bound of the model: longest child sequence of a generated instance document.
MaxChildren == 3

\* longest content of the documents read under IgnoredXPaths rules
MaxContent == 2

\* most steps of a generated pattern
MaxSteps == 2

\* most elements below the root of a generated document tree
\* Most entries of the namespace table of a generated rule set.
MaxNamespaces == 3

\* Most features of a generated document of features with geometries.
MaxMembers == 2

MaxParts == 2

\* The /vsimem files the run under study wrote with gdal.FileFromMemBuffer:
\* path -> schema content.
VARIABLE vsimem

Null == "<null>"

\* Python's None where a Feature is expected; a Feature is returned as << feature >>
None == <<>>

(***************************************************************************)
(* Fixtures: schemas written by the tests with gdal.FileFromMemBuffer.     *)
(* A schema document is {valid, includes, elems}; elems declares the       *)
(* children of the root element main_elt, in schema order.                 *)
(***************************************************************************)
\* One step of a source XPath: an element or an attribute (@), its namespace
\* prefix in the schema ("" when it has no namespace) and its local name.
Step(attr, ns, local) == [attr |-> attr, ns |-> ns, local |-> local]

\* A declared child with its source XPath, from the root element down.
Fld(n, lo, hi, path) == [name |-> n, minOccurs |-> lo, maxOccurs |-> hi, path |-> path]

Elt(n, lo, hi) ==
    Fld(n, lo, hi, << Step(FALSE, "", "main_elt"), Step(FALSE, "", n) >>)

XSD_unexpected_repeated_element ==
    [valid |-> TRUE, includes |-> <<>>, elems |-> << Elt("foo", 0, 1) >>]

XSD_unexpected_repeated_element_variant ==
    [valid |-> TRUE, includes |-> <<>>,
     elems |-> << Elt("foo", 0, 1), Elt("bar", 0, 1) >>]

XSD_validate ==
    [valid |-> TRUE, includes |-> <<>>, elems |-> << Elt("foo", 1, 1) >>]

XSD_conf_invalid ==
    [valid |-> TRUE, includes |-> <<>>,
     elems |-> << Elt("foo", 1, 1), Elt("missing", 1, 1) >>]

XSD_invalid_schema == [valid |-> FALSE, includes |-> <<>>, elems |-> <<>>]

\* data/gmlas_test1.xml handed over as XSD=: an instance document, not a schema
XSD_which_is_not_xsd == [valid |-> FALSE, includes |-> <<>>, elems |-> <<>>]

\* data/gmlas_test1.xsd, as far as ogr_gmlas_conf_ignored_xpath looks at it:
\* the attributes and child elements of myns:main_elt the test names.
MainElt == Step(FALSE, "myns", "main_elt")

XSD_gmlas_test1 ==
    [valid |-> TRUE, includes |-> <<>>,
     elems |-> << Fld("optionalStrAttr", 0, 1, << MainElt, Step(TRUE, "", "optionalStrAttr") >>),
                  Fld("fixedValUnset", 0, 1, << MainElt, Step(TRUE, "", "fixedValUnset") >>),
                  Fld("otherns_id", 0, 1, << MainElt, Step(TRUE, "otherns", "id") >>),
                  Fld("base_int", 0, 1, << MainElt, Step(FALSE, "myns", "base_int") >>),
                  Fld("string", 0, 1, << MainElt, Step(FALSE, "myns", "string") >>),
                  Fld("string_array", 0, 2, << MainElt, Step(FALSE, "myns", "string_array") >>),
                  Fld("int_array", 0, 2, << MainElt, Step(FALSE, "myns", "int_array") >>),
                  Fld("long", 0, 1, << MainElt, Step(FALSE, "myns", "long") >>) >>]

\* A schema whose root has Fields one and two levels down, flattened into the
\* table of the root: the same local names under different parents.
XSD_nested ==
    [valid |-> TRUE, includes |-> <<>>,
     elems |-> << Fld("long", 0, 1, << MainElt, Step(FALSE, "myns", "long") >>),
                  Fld("id", 0, 1, << MainElt, Step(TRUE, "otherns", "id") >>),
                  Fld("nested_long", 0, 1,
                      << MainElt, Step(FALSE, "myns", "nested"), Step(FALSE, "myns", "long") >>),
                  Fld("nested_id", 0, 1,
                      << MainElt, Step(FALSE, "myns", "nested"), Step(TRUE, "otherns", "id") >>),
                  Fld("nested_nested", 0, 1,
                      << MainElt, Step(FALSE, "myns", "nested"),
                         Step(FALSE, "myns", "nested") >>) >>]

\* Schemas with several top-level elements.  A particle of a content model is
\* a string element ("simple"), an xs:ID attribute ("id"), a reference to a
\* top-level element ("ref") or a local element with a content model of its
\* own ("nested"); repeated stands for maxOccurs="unbounded".
Particle(kind, ns, n, rep, content) ==
    [kind |-> kind, ns |-> ns, name |-> n, repeated |-> rep, content |-> content]

Simple(n) == Particle("simple", "", n, FALSE, <<>>)

SimpleArray(n) == Particle("simple", "", n, TRUE, <<>>)

IdAttr(n) == Particle("id", "", n, FALSE, <<>>)

Ref(ns, n, rep) == Particle("ref", ns, n, rep, <<>>)

Nested(n, rep, content) == Particle("nested", "", n, rep, content)

\* An element of gml:ReferenceType: its xlink:href points at an element
\* called target.
Link(n, target) ==
    [kind |-> "link", ns |-> "", name |-> n, repeated |-> FALSE, content |-> <<>>,
     target |-> target]

\* <xs:element name=n abstract=... substitutionGroup=...> of namespace ns;
\* subst is << ns, name >> of the head, or << >>.
Element(ns, n, abstract, subst, content) ==
    [ns |-> ns, name |-> n, abstract |-> abstract, substitutionGroup |-> subst,
     content |-> content]

SchemaOf(includes, decls) ==
    [valid |-> TRUE, includes |-> includes, elems |-> <<>>, decls |-> decls]

AbstractElt == << "other_ns", "abstractElt" >>

PATH_same_element ==
    "/vsimem/ogr_gmlas_same_element_in_different_ns.xsd"
PATH_same_element_other_ns ==
    "/vsimem/ogr_gmlas_same_element_in_different_ns_other_ns.xsd"
PATH_composition == "/vsimem/ogr_gmlas_composition_compositionPart.xsd"
PATH_link_nested == "/vsimem/ogr_gmlas_link_nested_independant_child.xsd"

XSD_same_element_in_different_ns ==
    SchemaOf(<< PATH_same_element_other_ns >>,
             << Element("myns", "elt", FALSE, <<>>,
                        << Ref("other_ns", "abstractElt", FALSE),
                           Nested("elt2", FALSE,
                                  << Ref("other_ns", "abstractElt", TRUE) >>) >>),
                Element("myns", "realizationOfAbstractElt", FALSE, AbstractElt,
                        << Simple("bar") >>) >>)

XSD_same_element_in_different_ns_other_ns ==
    SchemaOf(<<>>,
             << Element("other_ns", "abstractElt", TRUE, <<>>, <<>>),
                Element("other_ns", "realizationOfAbstractElt", FALSE, AbstractElt,
                        << Simple("foo") >>) >>)

\* data/gmlas_fake_gml32.xsd, as far as ogr_gmlas_instantiate_only_gml_feature
\* looks at it: the abstract feature element.
AbstractFeature == << "gml", "AbstractFeature" >>

PATH_fake_gml32 == "/vsimem/gmlas_fake_gml32.xsd"
PATH_instantiate_only_gml_feature == "/vsimem/ogr_gmlas_instantiate_only_gml_feature.xsd"

XSD_fake_gml32 ==
    SchemaOf(<<>>, << Element("gml", "AbstractFeature", TRUE, <<>>, <<>>) >>)

XSD_instantiate_only_gml_feature ==
    SchemaOf(<< PATH_fake_gml32 >>,
        << Element("", "nonFeature", FALSE, <<>>, << Simple("a") >>),
           Element("", "someFeature", FALSE, AbstractFeature,
                   << Ref("", "nonFeature", FALSE) >>) >>)

XSD_composition_compositionPart ==
    SchemaOf(<<>>,
             << Element("", "first", FALSE, <<>>,
                        << Nested("composition", TRUE,
                                  << Ref("", "CompositionPart", FALSE) >>) >>),
                Element("", "CompositionPart", FALSE, <<>>,
                        << Simple("a"), IdAttr("my_id") >>) >>)

XSD_link_nested_independant_child ==
    SchemaOf(<<>>,
             << Element("", "first", FALSE, <<>>, << Ref("", "second", FALSE) >>),
                Element("", "second", FALSE, <<>>, << IdAttr("my_id") >>) >>)

\* data/gmlas_abstractgeometry_gml32.xsd, as far as ogr_gmlas_conf looks at it:
\* one table.
XSD_abstractgeometry_gml32 ==
    [valid |-> TRUE, includes |-> <<>>,
     elems |-> << Elt("AbstractGeometry", 0, 1), Elt("repeated_AbstractGeometry", 0, 2) >>]

\* A geometry property of the root element; srs is the reference system of
\* its geometry field, the one geometries are reprojected into.
GeomFld(n, srs) ==
    [name |-> n, minOccurs |-> 0, maxOccurs |-> 1,
     path |-> << Step(FALSE, "", "main_elt"), Step(FALSE, "", n) >>, srs |-> srs]

IsGeometryField(e) == "srs" \in DOMAIN e

\* data/gmlas_geometryproperty_gml32.xsd, as far as
\* ogr_gmlas_geometryproperty reads geometries: the geometry fields it
\* fetches, whose reference system is EPSG 4326.
XSD_geometryproperty_gml32 ==
    [valid |-> TRUE, includes |-> <<>>,
     elems |-> << GeomFld("geometryProperty", "4326"),
                  GeomFld("geometryPropertyEmpty", "4326"),
                  GeomFld("pointProperty", "4326"),
                  GeomFld("lineStringProperty", "4326") >>]

\* The namespace prefixes the schemas bind.
SchemaPrefixes == ("myns" :> "http://myns") @@ ("otherns" :> "http://other_ns")

URL_cache   == "http://localhost/vsimem/ogr_gmlas_cache.xsd"
URL_cache_2 == "http://localhost/vsimem/ogr_gmlas_cache_2.xsd"

XSD_cache   == [valid |-> TRUE, includes |-> << URL_cache_2 >>, elems |-> <<>>]

XSD_cache_2 ==
    [valid |-> TRUE, includes |-> <<>>, elems |-> << Elt("foo", 1, 1) >>]

\* Schema references that name a local (or /vsimem) file, and what the file holds.
\* The variant test reuses the file name of the first one with another content;
\* the two contents are kept apart by the suffix.
PATH_repeated         == "/vsimem/ogr_gmlas_unexpected_repeated_element.xsd"
PATH_repeated_variant == "/vsimem/ogr_gmlas_unexpected_repeated_element.xsd(variant)"
PATH_validate         == "/vsimem/ogr_gmlas_validate.xsd"
PATH_conf_invalid     == "/vsimem/ogr_gmlas_conf_invalid.xsd"
PATH_invalid_schema   == "/vsimem/ogr_gmlas_invalid_schema.xsd"
PATH_not_xsd          == "data/gmlas_test1.xml"
PATH_i_dont_exist     == "/vsimem/i_dont_exist.xsd"
PATH_my_conf          == "/vsimem/my_conf.xml"
PATH_gmlas_test1      == "data/gmlas_test1.xsd"
PATH_nested           == "data/gmlas_nested.xsd"
PATH_abstractgeometry == "data/gmlas_abstractgeometry_gml32.xsd"
PATH_geometryproperty == "data/gmlas_geometryproperty_gml32.xsd"

\* data/gmlas_test_targetelement.xsd, as far as ogr_gmlas_gml_Reference looks
\* at it: two tables, and in main_elt a reference to target_elt and one to
\* an abstract element.  The test reads the key BAZ from the first
\* reference, so the document bears a target_elt of that identifier; it
\* stands here as a child of the root.
PATH_targetelement == "data/gmlas_test_targetelement.xsd"

XSD_targetelement ==
    SchemaOf(<<>>,
        << Element("", "main_elt", FALSE, <<>>,
                   << Link("reference_existing_target_elt", "target_elt"),
                      Link("reference_existing_abstract_target_elt", "abstract_target_elt"),
                      Ref("", "target_elt", FALSE) >>),
           Element("", "target_elt", FALSE, <<>>, << IdAttr("id") >>),
           Element("", "abstract_target_elt", TRUE, <<>>, <<>>) >>)

DataFiles ==
    (PATH_repeated         :> XSD_unexpected_repeated_element) @@
    (PATH_repeated_variant :> XSD_unexpected_repeated_element_variant) @@
    (PATH_validate         :> XSD_validate) @@
    (PATH_conf_invalid     :> XSD_conf_invalid) @@
    (PATH_invalid_schema   :> XSD_invalid_schema) @@
    (PATH_not_xsd          :> XSD_which_is_not_xsd) @@
    (PATH_gmlas_test1      :> XSD_gmlas_test1) @@
    (PATH_nested           :> XSD_nested) @@
    (PATH_abstractgeometry :> XSD_abstractgeometry_gml32) @@
    (PATH_geometryproperty :> XSD_geometryproperty_gml32) @@
    (PATH_targetelement    :> XSD_targetelement)

\* The local files of an open: those of the fixtures and those of the run.
LocalFiles == vsimem @@ DataFiles

\* What the test web server serves (it serves /vsimem).
RemoteFiles == (URL_cache :> XSD_cache) @@ (URL_cache_2 :> XSD_cache_2)

IsRemote(ref) == ref \in DOMAIN RemoteFiles

\* The content behind a reference, once a byte stream for it has been obtained.
SchemaContent(ref) ==
    IF ref \in DOMAIN RemoteFiles THEN RemoteFiles[ref] ELSE LocalFiles[ref]

(***************************************************************************)
(* Fixtures: instance documents.  children are the child elements of the   *)
(* root main_elt in document order; closed says the root's end tag is      *)
(* there; schemaLocation is "" when the document declares none.            *)
(***************************************************************************)
Child(n, t) == [name |-> n, text |-> t]

Document(loc, ch, cl) ==
    [present |-> TRUE, schemaLocation |-> loc, children |-> ch, closed |-> cl]

\* 'GMLAS:' alone: no instance document
NoDocument ==
    [present |-> FALSE, schemaLocation |-> "", children |-> <<>>, closed |-> TRUE]

DOC_unexpected_repeated_element ==
    Document(PATH_repeated,
             << Child("foo", "foo_first"), Child("foo", "foo_again") >>, TRUE)

DOC_unexpected_repeated_element_variant ==
    Document(PATH_repeated_variant,
             << Child("foo", "foo_first"), Child("bar", "bar"),
                Child("foo", "foo_again") >>, TRUE)

DOC_validate == Document(PATH_validate, << Child("bar", "bar") >>, TRUE)

DOC_conf_invalid == Document(PATH_conf_invalid, << Child("foo", "bar") >>, TRUE)

DOC_cache == Document(URL_cache, << Child("foo", "bar") >>, TRUE)

DOC_gml_without_schema_location == Document("", <<>>, TRUE)

DOC_invalid_schema == Document(PATH_invalid_schema, <<>>, TRUE)

DOC_invalid_xml == Document(PATH_repeated, <<>>, FALSE)

\* data/gmlas_abstractgeometry_gml32.gml
DOC_abstractgeometry_gml32 ==
    Document(PATH_abstractgeometry, << Child("AbstractGeometry", "test.geom.0") >>, TRUE)

\* Documents of features with geometries: members are the features in
\* document order, each the sequence of its geometry properties: the name of
\* the property, the srsName of the geometry and its positions as written.
URN_4326 == "urn:ogc:def:crs:EPSG::4326"

Geometry(n, srsName, pos) == [name |-> n, srsName |-> srsName, pos |-> pos]

FeatureDocument(loc, members) ==
    [present |-> TRUE, schemaLocation |-> loc, children |-> <<>>, closed |-> TRUE,
     members |-> members]

HasMembers(d) == "members" \in DOMAIN d

\* data/gmlas_geometryproperty_gml32.gml, as far as
\* ogr_gmlas_geometryproperty reads it: the first feature with geometries of
\* latitude-first and of longitude-first 4326, the second with a geometry of
\* another reference system, the third with one that cannot be reprojected.
\* Projected coordinates are written in units of 100 km.
DOC_geometryproperty_gml32 ==
    FeatureDocument(PATH_geometryproperty,
        << << Geometry("geometryProperty", URN_4326, << << 49, 2 >> >>),
              Geometry("pointProperty", URN_4326, << << 50, 3 >> >>),
              Geometry("lineStringProperty", "EPSG:4326", << << 2, 49 >> >>) >>,
           << Geometry("geometryProperty", "EPSG:32631", << << 5, 0 >> >>) >>,
           << Geometry("geometryProperty", "EPSG:32631", << << 50, 0 >> >>) >> >>)

\* Instance documents as trees, for the schemas with several top-level
\* elements: an element has a namespace prefix, a local name, the value of
\* its xs:ID attribute ("" without one), its text and its child elements.
Node(ns, n, id, text, kids) ==
    [ns |-> ns, name |-> n, id |-> id, text |-> text, kids |-> kids]

TreeDocument(loc, root) ==
    [present |-> TRUE, schemaLocation |-> loc, children |-> <<>>, closed |-> TRUE,
     root |-> root]

IsTree(d) == "root" \in DOMAIN d

DOC_same_element_in_different_ns ==
    TreeDocument(PATH_same_element,
        Node("myns", "elt", "", "",
             << Node("other_ns", "realizationOfAbstractElt", "", "",
                     << Node("other_ns", "foo", "", "bar", <<>>) >>) >>))

CompositionOf(id, a) ==
    Node("", "composition", "", "",
         << Node("", "CompositionPart", id, "", << Node("", "a", "", a, <<>>) >>) >>)

DOC_composition_compositionPart ==
    TreeDocument(PATH_composition,
        Node("", "first", "", "",
             << CompositionOf("id1", "a1"), CompositionOf("id2", "a2") >>))

\* data/gmlas_test_targetelement.xml, as far as ogr_gmlas_gml_Reference looks
\* at it; the text of a reference stands for the identifier after the "#" of
\* its xlink:href.
DOC_gmlas_test_targetelement ==
    TreeDocument(PATH_targetelement,
        Node("", "main_elt", "", "",
             << Node("", "reference_existing_target_elt", "", "BAZ", <<>>),
                Node("", "reference_existing_abstract_target_elt", "", "BAW", <<>>),
                Node("", "target_elt", "BAZ", "", <<>>) >>))

DOC_link_nested_independant_child ==
    TreeDocument(PATH_link_nested,
        Node("", "first", "", "", << Node("", "second", "second_id", "", <<>>) >>))

\* Generated documents: every child sequence up to MaxChildren over the
\* elements the fixtures use, against every valid local schema.
ChildAlphabet ==
    { Child("foo", "foo_first"), Child("foo", "foo_again"), Child("bar", "bar") }

ChildSeqs == UNION { [1..n -> ChildAlphabet] : n \in 0..MaxChildren }

ValidLocalSchemas ==
    { PATH_repeated, PATH_repeated_variant, PATH_validate, PATH_conf_invalid }

GeneratedDocs ==
    { Document(loc, ch, TRUE) : loc \in ValidLocalSchemas, ch \in ChildSeqs }

\* Generated documents whose input ends before the root element is ended,
\* with nothing or one child element read before the end of the input.
TruncatedDocs ==
    { Document(loc, ch, FALSE) :
        loc \in ValidLocalSchemas, ch \in { c \in ChildSeqs : Len(c) <= 1 } }

Docs ==
    GeneratedDocs \cup TruncatedDocs \cup
    { NoDocument, DOC_cache, DOC_gml_without_schema_location,
      DOC_invalid_schema, DOC_invalid_xml,
      DOC_unexpected_repeated_element, DOC_unexpected_repeated_element_variant,
      DOC_validate, DOC_conf_invalid }

\* data/gmlas_test1.xml, as far as ogr_gmlas_conf_ignored_xpath looks at it:
\* the root carries the attribute otherns:id.
DOC_gmlas_test1 == Document(PATH_gmlas_test1, << Child("otherns_id", "id1") >>, TRUE)

\* data/gmlas_test1.xml, as far as ogr_gmlas_conf looks at it: string_array
\* occurs twice.
DOC_gmlas_test1_string_array ==
    Document(PATH_gmlas_test1,
             << Child("string_array", "str1"), Child("string_array", "str2") >>, TRUE)

\* Documents of that schema: every content up to MaxContent over an attribute,
\* an element and an array element that rules exclude, and an element they keep.
RuleAlphabet ==
    { Child("otherns_id", "id1"), Child("string", "s"),
      Child("string_array", "a"), Child("long", "1") }

RuleDocs ==
    { Document(PATH_gmlas_test1, ch, TRUE) :
        ch \in UNION { [1..n -> RuleAlphabet] : n \in 0..MaxContent } }

(***************************************************************************)
(* XPath Pattern Engine (4.3), syntax only.  A pattern is the sequence of  *)
(* its lexical tokens: 'a:1' is << "a", ":", "1" >>.                        *)
(***************************************************************************)
XPathPunctuation == { "@", "/", "//", ":", ".", "[", "]", "=", "'baz'" }
XPathDigits      == { "1" }

IsXPathName(t) == t \notin XPathPunctuation /\ t \notin XPathDigits

\* Pattern ::= ["//"] Step (("/" | "//") Step)* ;  Step ::= ["@"] Name [":" Name]
\* st: "step" (a step must start), "at" (after @), "name" (after a first name),
\*     "colon" (after prefix:), "local" (after prefix:name)
RECURSIVE XPathParse(_, _, _)
XPathParse(p, i, st) ==
    IF i > Len(p) THEN st \in { "name", "local" }
    ELSE LET t == p[i] IN
         CASE st = "step"  -> IF t = "@" THEN XPathParse(p, i + 1, "at")
                              ELSE IF t = "//" /\ i = 1 THEN XPathParse(p, i + 1, "step")
                              ELSE IsXPathName(t) /\ XPathParse(p, i + 1, "name")
           [] st = "at"    -> IsXPathName(t) /\ XPathParse(p, i + 1, "name")
           [] st = "name"  -> IF t = ":" THEN XPathParse(p, i + 1, "colon")
                              ELSE t \in { "/", "//" } /\ XPathParse(p, i + 1, "step")
           [] st = "colon" -> IsXPathName(t) /\ XPathParse(p, i + 1, "local")
           [] st = "local" -> t \in { "/", "//" } /\ XPathParse(p, i + 1, "step")

\* (only the empty pattern refused)
XPathSyntaxOK_nonempty(p) == p # <<>>

XPathSyntaxOK(p) == XPathParse(p, 1, "step")

RECURSIVE PatternText(_)
PatternText(p) == IF p = <<>> THEN "" ELSE Head(p) \o PatternText(Tail(p))

\* the unsupported and invalid XPaths the test feeds
InvalidXPaths ==
    { <<>>, << "1" >>, << "@" >>, << "@", "/" >>, << "." >>, << ":" >>,
      << "/", ":" >>, << "a", ":" >>, << "a", ":", "1" >>,
      << "foo", "[", "1", "]" >>,
      << "foo", "[", "@", "bar", "=", "'baz'", "]" >> }

XPATH_otherns_id == << "@", "otherns", ":", "id" >>

\* (only a declaration next to the first one is compared)
RECURSIVE DuplicatePrefix_adjacent(_, _)
DuplicatePrefix_adjacent(ns, i) ==
    IF i > Len(ns) THEN ""
    ELSE IF i > 1 /\ ns[i - 1].prefix = ns[i].prefix /\ ns[i - 1].uri # ns[i].uri
         THEN ns[i].prefix
         ELSE DuplicatePrefix_adjacent(ns, i + 1)

\* (a prefix declared twice for the same URI refused as well)
RECURSIVE DuplicatePrefix_same_uri(_, _)
DuplicatePrefix_same_uri(ns, i) ==
    IF i > Len(ns) THEN ""
    ELSE IF \E j \in 1..(i - 1) : ns[j].prefix = ns[i].prefix
         THEN ns[i].prefix
         ELSE DuplicatePrefix_same_uri(ns, i + 1)

\* The first prefix of a namespace table that is declared for two different URIs,
\* "" when there is none.
RECURSIVE DuplicatePrefix(_, _)
DuplicatePrefix(ns, i) ==
    IF i > Len(ns) THEN ""
    ELSE IF \E j \in 1..(i - 1) : ns[j].prefix = ns[i].prefix /\ ns[j].uri # ns[i].uri
         THEN ns[i].prefix
         ELSE DuplicatePrefix(ns, i + 1)

\* Index of the first pattern of a rule list with a syntax error, 0 when all parse.
RECURSIVE FirstBadXPath(_, _)
FirstBadXPath(xs, i) ==
    IF i > Len(xs) THEN 0
    ELSE IF ~ XPathSyntaxOK(xs[i]) THEN i ELSE FirstBadXPath(xs, i + 1)

\* The steps of a pattern that parses: {axis, attr, prefix, local}; axis is
\* what precedes the step: "/", "//", or "" for a first step with nothing.
RECURSIVE ParseSteps(_, _, _)
ParseSteps(p, i, axis) ==
    LET attr == p[i] = "@"
        j    == IF attr THEN i + 1 ELSE i
        pref == j + 1 <= Len(p) /\ p[j + 1] = ":"
        k    == IF pref THEN j + 3 ELSE j + 1
        st   == [axis |-> axis, attr |-> attr,
                 prefix |-> IF pref THEN p[j] ELSE "",
                 local  |-> IF pref THEN p[j + 2] ELSE p[j]]
    IN IF k > Len(p) THEN << st >> ELSE << st >> \o ParseSteps(p, k + 1, p[k])

PatternSteps(p) ==
    IF p[1] = "//" THEN ParseSteps(p, 2, "//") ELSE ParseSteps(p, 1, "")

Unresolved == "<unresolved>"

\* The namespace URI of a prefix used in a pattern: the one the namespace
\* table of the rule set declares, else the one the schema binds it to.
ResolvePrefix(prefix, ns) ==
    IF prefix = "" THEN ""
    ELSE IF \E i \in 1..Len(ns) : ns[i].prefix = prefix
    THEN ns[CHOOSE i \in 1..Len(ns) : ns[i].prefix = prefix].uri
    ELSE IF prefix \in DOMAIN SchemaPrefixes THEN SchemaPrefixes[prefix]
    ELSE Unresolved

StepURI(fs) == IF fs.ns = "" THEN "" ELSE SchemaPrefixes[fs.ns]

\* (a name step accepted when it starts the real name)
StepMatches_by_prefix(ps, fs, ns) ==
    /\ ps.attr = fs.attr
    /\ ps.local \in { "int_arra", fs.local }
    /\ ResolvePrefix(ps.prefix, ns) = StepURI(fs)

\* (the namespace of a step not compared)
StepMatches_any_namespace(ps, fs, ns) == ps.attr = fs.attr /\ ps.local = fs.local

\* A pattern step against a step of a source XPath: whole names, same kind,
\* same namespace.
StepMatches(ps, fs, ns) ==
    /\ ps.attr = fs.attr
    /\ ps.local = fs.local
    /\ ResolvePrefix(ps.prefix, ns) = StepURI(fs)

\* Pattern step i is matched at position j of the path: the steps before it
\* are matched upwards, "/" by the parent, "//" by any ancestor.
RECURSIVE MatchUp(_, _, _, _, _)
MatchUp(ps, i, path, j, ns) ==
    IF i = 1 THEN TRUE
    ELSE IF ps[i].axis = "/"
    THEN j > 1 /\ StepMatches(ps[i - 1], path[j - 1], ns)
               /\ MatchUp(ps, i - 1, path, j - 1, ns)
    ELSE \E k \in 1..(j - 1) :
             StepMatches(ps[i - 1], path[k], ns) /\ MatchUp(ps, i - 1, path, k, ns)

\* (every separator taken as "//")
MatchesXPath_all_descendant(p, path, ns) ==
    LET ps == PatternSteps(p) IN
    /\ StepMatches(ps[Len(ps)], path[Len(path)], ns)
    /\ \E g \in [1..Len(ps) -> 1..Len(path)] :
          /\ g[Len(ps)] = Len(path)
          /\ \A i \in 1..Len(ps) : StepMatches(ps[i], path[g[i]], ns)
          /\ \A i \in 2..Len(ps) : g[i - 1] < g[i]

\* A pattern matches a source XPath when its last step matches the last step
\* of the path and the others match upwards.
MatchesXPath(p, path, ns) ==
    LET ps == PatternSteps(p) IN
    /\ StepMatches(ps[Len(ps)], path[Len(path)], ns)
    /\ MatchUp(ps, Len(ps), path, Len(path), ns)

(***************************************************************************)
(* Configuration documents (the CONFIG_FILE open option) and open options. *)
(* A setting the document does not give is "".                             *)
(***************************************************************************)
CacheDirectory == "/vsimem/my/gmlas_cache"

Configuration(allow, dir, val, failIf, ns, xpaths) ==
    [AllowRemoteSchemaDownload |-> allow, Directory |-> dir,
     ValidationEnabled |-> val, FailIfError |-> failIf,
     Namespaces |-> ns, XPaths |-> xpaths,
     \* WarnIfIgnoredXPathFoundInDocInstance of the rule set, and the
     \* warnIfIgnoredXPathFoundInDocInstance attribute of each XPath
     WarnDefault |-> "", XPathWarn |-> [i \in 1..Len(xpaths) |-> ""],
     ExposeMetadataLayers |-> "",
     \* LayerBuildingRules/UseArrays
     UseArrays |-> ""]

EmptyConfiguration == Configuration("", "", "", "", <<>>, <<>>)

\* CONFIG_FILE values: not given, an inlined document, or a file name
ConfigAbsent      == [kind |-> "absent", name |-> "", body |-> EmptyConfiguration]
ConfigInline(b)   == [kind |-> "inline", name |-> "", body |-> b]
ConfigNotExisting == [kind |-> "missing", name |-> "not_existing", body |-> EmptyConfiguration]
ConfigBroken      == [kind |-> "broken", name |-> PATH_my_conf, body |-> EmptyConfiguration]

CONF_no_download ==
    ConfigInline(Configuration("false", CacheDirectory, "", "", <<>>, <<>>))
\* download disabled and no cache directory either
CONF_no_download_no_cache ==
    ConfigInline(Configuration("false", "", "", "", <<>>, <<>>))
CONF_cache ==
    ConfigInline(Configuration("", CacheDirectory, "", "", <<>>, <<>>))
CONF_validation_fail ==
    ConfigInline(Configuration("", "", "true", "true", <<>>, <<>>))
CONF_expose_metadata ==
    ConfigInline([EmptyConfiguration EXCEPT !.ExposeMetadataLayers = "true"])
CONF_use_arrays_false ==
    ConfigInline([EmptyConfiguration EXCEPT !.UseArrays = "false"])
CONF_invalid_xpath(p) ==
    ConfigInline(Configuration("", "", "", "", <<>>, << p >>))
CONF_duplicate_prefix ==
    ConfigInline(Configuration("", "", "", "",
        << [prefix |-> "ns", uri |-> "http://ns1"],
           [prefix |-> "ns", uri |-> "http://ns2"] >>, <<>>))
\* An IgnoredXPaths rule set: namespace table, patterns, the flag of the rule
\* set and the flags of the patterns ("" where not given).
RuleConf(ns, xpaths, warnDefault, warns) ==
    ConfigInline([Configuration("", "", "", "", ns, xpaths)
                     EXCEPT !.WarnDefault = warnDefault, !.XPathWarn = warns])

CONF_ignored_xpath == RuleConf(<<>>, << XPATH_otherns_id >>, "true", << "" >>)

CONF_ignored_xpath_no_warn ==
    RuleConf(<< [prefix |-> "other_ns", uri |-> "http://other_ns"] >>,
             << << "@", "other_ns", ":", "id" >> >>, "", << "false" >>)

\* 'Test various XPath syntaxes': five rules that match, four that do not
MatchingXPaths ==
    << << "myns", ":", "main_elt", "/", "@", "optionalStrAttr" >>,
       << "myns", ":", "main_elt", "//", "@", "fixedValUnset" >>,
       << "myns", ":", "main_elt", "/", "myns", ":", "base_int" >>,
       << "//", "myns", ":", "string" >>,
       << "myns", ":", "main_elt", "//", "myns", ":", "string_array" >> >>

NoMatchXPaths ==
    << << "a" >>,
       << "unknown_ns", ":", "foo" >>,
       << "myns", ":", "main_elt", "/", "myns", ":", "int_arra" >>,
       << "foo", "/", "myns", ":", "long" >> >>

CONF_various_xpaths ==
    RuleConf(<<>>, MatchingXPaths \o NoMatchXPaths, "false",
             [i \in 1..(Len(MatchingXPaths) + Len(NoMatchXPaths)) |-> ""])

OpenOptions(xsd, val, failIf, refresh, conf) ==
    [XSD |-> xsd, VALIDATE |-> val, FAIL_IF_VALIDATION_ERROR |-> failIf,
     REFRESH_CACHE |-> refresh, CONFIG_FILE |-> conf, EXPOSE_METADATA_LAYERS |-> "",
     SWAP_COORDINATES |-> ""]

(***************************************************************************)
(* Configuration Merger: open option, else configuration document, else    *)
(* built-in default.                                                       *)
(***************************************************************************)
\* (the configuration document taken before the open option)
Merge_document_first(option, setting, default) ==
    IF setting # "" THEN setting = "true"
    ELSE IF option # "" THEN option = "YES"
    ELSE default

\* (the configuration document not looked at)
Merge_without_document(option, setting, default) ==
    IF option # "" THEN option = "YES" ELSE default

Merge(option, setting, default) ==
    IF option # "" THEN option = "YES"
    ELSE IF setting # "" THEN setting = "true"
    ELSE default

EffectiveConfiguration(opts) ==
    LET b == opts.CONFIG_FILE.body IN
    [Validate            |-> Merge(opts.VALIDATE, b.ValidationEnabled, FALSE),
     FailIfError         |-> Merge(opts.FAIL_IF_VALIDATION_ERROR, b.FailIfError, FALSE),
     AllowRemoteDownload |-> Merge("", b.AllowRemoteSchemaDownload, TRUE),
     CacheDirectory      |-> b.Directory,
     RefreshCache        |-> Merge(opts.REFRESH_CACHE, "", FALSE),
     ExposeMetadataLayers |-> Merge(opts.EXPOSE_METADATA_LAYERS, b.ExposeMetadataLayers,
                                    FALSE),
     UseArrays           |-> Merge("", b.UseArrays, TRUE),
     SwapCoordinates     |-> IF opts.SWAP_COORDINATES \in { "YES", "NO" }
                             THEN opts.SWAP_COORDINATES ELSE "AUTO"]

(***************************************************************************)
(* Schema Resolver (4.1).  env is what resolution reads and changes during *)
(* one open: cache, the URLs stored in the cache directory; net, the URLs  *)
(* requested from the network by this open, in order.                      *)
(***************************************************************************)
InSet(x, sq) == \E i \in 1..Len(sq) : sq[i] = x

\* (a cached copy used although the open asks for a refresh)
UsesCache_ignores_refresh(ref, conf, env) ==
    conf.CacheDirectory # "" /\ ref \in env.cache

\* (the cache directory never read)
UsesCache_never(ref, conf, env) == FALSE

\* A cached copy is used when a cache directory is configured and holds the
\* entry, unless the open asks for a refresh and has not re-fetched it yet.
UsesCache(ref, conf, env) ==
    /\ conf.CacheDirectory # ""
    /\ ref \in env.cache
    /\ (~ conf.RefreshCache \/ InSet(ref, env.net))

\* (the download attempted although AllowRemoteSchemaDownload is false)
Resolve_ignores_switch(ref, conf, srv, env) ==
    IF ~ IsRemote(ref)
    THEN [ok |-> ref \in DOMAIN LocalFiles, env |-> env]
    ELSE IF UsesCache(ref, conf, env)
    THEN [ok |-> TRUE, env |-> env]
    ELSE IF srv # "up"
    THEN [ok |-> FALSE, env |-> [env EXCEPT !.net = Append(@, ref)]]
    ELSE [ok |-> TRUE,
          env |-> [cache |-> IF conf.CacheDirectory # ""
                             THEN env.cache \cup { ref } ELSE env.cache,
                   net   |-> Append(env.net, ref)]]

\* (a schema missing from a cache directory that holds other entries not fetched)
Resolve_no_refetch(ref, conf, srv, env) ==
    IF ~ IsRemote(ref)
    THEN [ok |-> ref \in DOMAIN LocalFiles, env |-> env]
    ELSE IF UsesCache(ref, conf, env)
    THEN [ok |-> TRUE, env |-> env]
    ELSE IF \/ ~ conf.AllowRemoteDownload
            \/ (conf.CacheDirectory # "" /\ env.cache # {} /\ env.net = <<>>)
    THEN [ok |-> FALSE, env |-> env]
    ELSE IF srv # "up"
    THEN [ok |-> FALSE, env |-> [env EXCEPT !.net = Append(@, ref)]]
    ELSE [ok |-> TRUE,
          env |-> [cache |-> IF conf.CacheDirectory # ""
                             THEN env.cache \cup { ref } ELSE env.cache,
                   net   |-> Append(env.net, ref)]]

\* Resolution of one reference: {ok, env}.
Resolve(ref, conf, srv, env) ==
    IF ~ IsRemote(ref)
    THEN [ok |-> ref \in DOMAIN LocalFiles, env |-> env]
    ELSE IF UsesCache(ref, conf, env)
    THEN [ok |-> TRUE, env |-> env]
    ELSE IF ~ conf.AllowRemoteDownload
    THEN [ok |-> FALSE, env |-> env]
    ELSE IF srv # "up"
    THEN [ok |-> FALSE, env |-> [env EXCEPT !.net = Append(@, ref)]]
    ELSE [ok |-> TRUE,
          env |-> [cache |-> IF conf.CacheDirectory # ""
                             THEN env.cache \cup { ref } ELSE env.cache,
                   net   |-> Append(env.net, ref)]]

\* Transitive resolution of the entry references and of what they include,
\* each URI once: {error, ident, loaded, env}; loaded lists the references
\* in the order they were resolved.
RECURSIVE ResolveAll_revisits(_, _, _, _, _)
RECURSIVE ResolveAll(_, _, _, _, _)
\* (a reference met again resolved again, its own references left aside)
ResolveAll_revisits(todo, loaded, conf, srv, env) ==
    IF todo = <<>>
    THEN [error |-> "", ident |-> Null, loaded |-> loaded, env |-> env]
    ELSE LET ref == Head(todo)
             r   == Resolve(ref, conf, srv, env)
         IN IF ~ r.ok
            THEN [error |-> "SchemaNotFound", ident |-> ref,
                  loaded |-> loaded, env |-> r.env]
            ELSE IF ~ SchemaContent(ref).valid
            THEN [error |-> "SchemaInvalid", ident |-> ref,
                  loaded |-> loaded, env |-> r.env]
            ELSE ResolveAll_revisits(
                     (IF InSet(ref, loaded) THEN <<>> ELSE SchemaContent(ref).includes)
                        \o Tail(todo),
                     Append(loaded, ref), conf, srv, r.env)

ResolveAll(todo, loaded, conf, srv, env) ==
    IF todo = <<>>
    THEN [error |-> "", ident |-> Null, loaded |-> loaded, env |-> env]
    ELSE LET ref == Head(todo) IN
         IF InSet(ref, loaded)
         THEN ResolveAll(Tail(todo), loaded, conf, srv, env)
         ELSE LET r == Resolve(ref, conf, srv, env) IN
              IF ~ r.ok
              THEN [error |-> "SchemaNotFound", ident |-> ref,
                    loaded |-> loaded, env |-> r.env]
              ELSE IF ~ SchemaContent(ref).valid
              THEN [error |-> "SchemaInvalid", ident |-> ref,
                    loaded |-> loaded, env |-> r.env]
              ELSE ResolveAll(SchemaContent(ref).includes \o Tail(todo),
                              Append(loaded, ref), conf, srv, r.env)

(***************************************************************************)
(* Schema Model Builder (4.2), for the schemas of the fixtures: one table  *)
(* for the root element, one Field per declared child element.             *)
(***************************************************************************)
RECURSIVE DeclaredElems(_)
DeclaredElems(loaded) ==
    IF loaded = <<>> THEN <<>>
    ELSE SchemaContent(Head(loaded)).elems \o DeclaredElems(Tail(loaded))

\* The text of a source XPath, as the diagnostics write it.
RECURSIVE PathText(_)
PathText(path) ==
    LET fs   == path[Len(path)]
        here == (IF fs.attr THEN "@" ELSE "")
                \o (IF fs.ns = "" THEN "" ELSE fs.ns \o ":") \o fs.local
    IN IF Len(path) = 1 THEN here
       ELSE PathText(SubSeq(path, 1, Len(path) - 1)) \o "/" \o here

\* The top-level element declarations of the loaded schemas, entry schema first.
RECURSIVE DeclaredElements(_)
DeclaredElements(loaded) ==
    IF loaded = <<>> THEN <<>>
    ELSE LET c == SchemaContent(Head(loaded)) IN
         (IF "decls" \in DOMAIN c THEN c.decls ELSE <<>>)
            \o DeclaredElements(Tail(loaded))

\* The abstract-feature roots of GML.
FeatureRoots == { AbstractFeature, << "gml", "_Feature" >> }

HasFeatureRoot(decls) ==
    \E i \in 1..Len(decls) : << decls[i].ns, decls[i].name >> \in FeatureRoots

\* e is substitutable for a feature root: its substitution group leads there
\* in at most n steps.
RECURSIVE SubstitutableForFeature(_, _, _)
SubstitutableForFeature(decls, e, n) ==
    \/ << e.ns, e.name >> \in FeatureRoots
    \/ /\ n > 0 /\ e.substitutionGroup # <<>>
       /\ \E i \in 1..Len(decls) :
             /\ << decls[i].ns, decls[i].name >> = e.substitutionGroup
             /\ SubstitutableForFeature(decls, decls[i], n - 1)

\* (every concrete top-level element a table, feature or not)
Instantiated_every_element(decls, e) == ~ e.abstract

\* (only the elements whose substitution group is the root itself)
Instantiated_direct_only(decls, e) ==
    /\ ~ e.abstract
    /\ HasFeatureRoot(decls) => e.substitutionGroup \in FeatureRoots

\* The top-level elements that become tables: the concrete ones, and once
\* the schemas declare an abstract-feature root only those substitutable for it.
Instantiated(decls, e) ==
    /\ ~ e.abstract
    /\ HasFeatureRoot(decls) => SubstitutableForFeature(decls, e, Len(decls))

\* A content model with the references to elements that are no tables
\* replaced by the content of the element, as for a local element; a
\* reference back to an element being replaced (an element in open) is
\* not followed.
RECURSIVE Inlined(_, _, _)
Inlined(decls, content, open) ==
    IF content = <<>> THEN <<>>
    ELSE LET p == Head(content)
             T == { i \in 1..Len(decls) : decls[i].ns = p.ns /\ decls[i].name = p.name }
             t == decls[CHOOSE i \in T : TRUE]
             own ==
               CASE p.kind = "nested" ->
                      << [p EXCEPT !.content = Inlined(decls, p.content, open)] >>
                 [] p.kind = "ref" /\ T # {} /\ ~ t.abstract /\ ~ Instantiated(decls, t) ->
                      IF << t.ns, t.name >> \in open THEN <<>>
                      ELSE << Particle("nested", "", t.name, p.repeated,
                                       Inlined(decls, t.content,
                                               open \cup { << t.ns, t.name >> })) >>
                 [] OTHER -> << p >>
         IN own \o Inlined(decls, Tail(content), open)

\* The declarations the tables are built from: the abstract elements and
\* the elements that become tables, in schema order.
InstantiatedElements(decls) ==
    LET Kept(e) == e.abstract \/ Instantiated(decls, e)
        kept == SelectSeq(decls, Kept)
    IN [i \in 1..Len(kept) |->
           [kept[i] EXCEPT !.content = Inlined(decls, kept[i].content, {})]]

\* (every table named by namespace and local name)
TableName_always_prefixed(decls, e) == e.ns \o "_" \o e.name

\* (no table named by its namespace)
TableName_never_prefixed(decls, e) == e.name

\* The table of a concrete top-level element is named by the local name, with
\* the namespace prefix in front once another table has the same local name
\* in another namespace.
TableName(decls, e) ==
    IF \E i \in 1..Len(decls) :
          ~ decls[i].abstract /\ decls[i].name = e.name /\ decls[i].ns # e.ns
    THEN e.ns \o "_" \o e.name
    ELSE e.name

Lookup(decls, ns, n) ==
    decls[CHOOSE i \in 1..Len(decls) : decls[i].ns = ns /\ decls[i].name = n]

\* (the realizations of one namespace only)
Realizations_same_namespace(decls, head) ==
    LET Realizes(e) == /\ ~ e.abstract /\ e.ns = head.ns
                       /\ e.substitutionGroup = << head.ns, head.name >>
    IN SelectSeq(decls, Realizes)

\* The concrete elements of the substitution group of head, in schema order.
Realizations(decls, head) ==
    LET Realizes(e) == ~ e.abstract /\ e.substitutionGroup = << head.ns, head.name >>
    IN SelectSeq(decls, Realizes)

\* The name of the xs:ID attribute of an element, "" when it has none.
IdAttrOf(e) ==
    IF \E i \in 1..Len(e.content) : e.content[i].kind = "id"
    THEN e.content[CHOOSE i \in 1..Len(e.content) : e.content[i].kind = "id"].name
    ELSE ""

\* The property/part pattern: a wrapper whose content is one element with an
\* identity of its own.
IsPropertyWrapper(decls, p) ==
    /\ p.kind = "nested" /\ Len(p.content) = 1
    /\ p.content[1].kind = "ref" /\ ~ p.content[1].repeated
    /\ ~ Lookup(decls, p.content[1].ns, p.content[1].name).abstract

ParentKey == "parent_ogr_pkid"

KeyField(n, path) == Fld(n \o "_pkid", 0, 1, path)

\* The Field that holds the key of the row a link points at.
LinkField(n, path, target) ==
    [name |-> n \o "_pkid", minOccurs |-> 0, maxOccurs |-> 1, path |-> path,
     link |-> target]

IsLinkField(e) == "link" \in DOMAIN e

\* The Fields a content model gives to the table that carries it; pre is the
\* prefix of the flattened wrappers, path the source XPath of the carrier.
RECURSIVE ClassFields(_, _, _, _)
ClassFields(decls, content, pre, path) ==
    IF content = <<>> THEN <<>>
    ELSE LET p == Head(content)
             t == Lookup(decls, p.ns, p.name)
             R == Realizations(decls, t)
             own ==
               CASE p.kind = "simple" ->
                      << Fld(pre \o p.name, 0, IF p.repeated THEN 2 ELSE 1,
                             Append(path, Step(FALSE, "", p.name))) >>
                 [] p.kind = "id" ->
                      << Fld(pre \o p.name, 1, 1, Append(path, Step(TRUE, "", p.name))) >>
                 [] p.kind = "nested" /\ ~ p.repeated ->
                      ClassFields(decls, p.content, pre \o p.name \o "_",
                                  Append(path, Step(FALSE, "", p.name)))
                 [] p.kind = "ref" /\ ~ p.repeated /\ t.abstract ->
                      [r \in 1..Len(R) |->
                          KeyField(pre \o t.name \o "_" \o TableName(decls, R[r]),
                                   Append(path, Step(FALSE, R[r].ns, R[r].name)))]
                 [] p.kind = "ref" /\ ~ p.repeated /\ ~ t.abstract ->
                      IF IdAttrOf(t) # ""
                      THEN << Fld(pre \o t.name \o "_" \o IdAttrOf(t), 0, 1,
                                  << Step(FALSE, t.ns, t.name),
                                     Step(TRUE, "", IdAttrOf(t)) >>) >>
                      ELSE << KeyField(pre \o t.name,
                                       Append(path, Step(FALSE, t.ns, t.name))) >>
                 [] p.kind = "link" ->
                      LET at == Append(Append(path, Step(FALSE, "", p.name)),
                                       Step(TRUE, "xlink", "href"))
                      IN << Fld(pre \o p.name \o "_href", 0, 1, at) >>
                         \o (IF Lookup(decls, "", p.target).abstract THEN <<>>
                             ELSE << LinkField(pre \o p.name, at, p.target) >>)
                 [] OTHER -> <<>>
         IN own \o ClassFields(decls, Tail(content), pre, path)

Table(n, path, fields) == [name |-> n, xpath |-> PathText(path), elems |-> fields]

\* (one junction table for the slot, whatever the realization)
JunctionsOf_one_per_slot(decls, ctx, t, path) ==
    << Table(ctx \o "_" \o t.name, path,
             << Fld(ParentKey, 1, 1, path), KeyField(t.name, path) >>) >>

\* (the junction tables named without the parent context)
JunctionsOf_without_context(decls, ctx, t, path) ==
    LET R == Realizations(decls, t) IN
    [r \in 1..Len(R) |->
        Table(t.name \o "_" \o TableName(decls, R[r]),
              Append(path, Step(FALSE, R[r].ns, R[r].name)),
              << Fld(ParentKey, 1, 1, path),
                 KeyField(TableName(decls, R[r]),
                          Append(path, Step(FALSE, R[r].ns, R[r].name))) >>)]

\* The junction tables of a repeated slot of the abstract element t in the
\* context ctx: one per realization.
JunctionsOf(decls, ctx, t, path) ==
    LET R == Realizations(decls, t) IN
    [r \in 1..Len(R) |->
        Table(ctx \o "_" \o t.name \o "_" \o TableName(decls, R[r]),
              Append(path, Step(FALSE, R[r].ns, R[r].name)),
              << Fld(ParentKey, 1, 1, path),
                 KeyField(TableName(decls, R[r]),
                          Append(path, Step(FALSE, R[r].ns, R[r].name))) >>)]

\* The tables a content model adds besides the table that carries it; ctx is
\* the name of the context: the table of the carrier and the wrappers down to
\* the content.
RECURSIVE ChildTables(_, _, _, _)
ChildTables(decls, content, ctx, path) ==
    IF content = <<>> THEN <<>>
    ELSE LET p == Head(content)
             t == Lookup(decls, p.ns, p.name)
             below == Append(path, Step(FALSE, "", p.name))
             own ==
               CASE p.kind = "nested" /\ ~ p.repeated ->
                      ChildTables(decls, p.content, ctx \o "_" \o p.name, below)
                 [] p.kind = "nested" /\ p.repeated /\ IsPropertyWrapper(decls, p) ->
                      << Table(ctx \o "_" \o p.name, below,
                               << Fld(ParentKey, 1, 1, below),
                                  KeyField(p.content[1].name,
                                           Append(below, Step(FALSE, p.content[1].ns,
                                                              p.content[1].name))) >>) >>
                 [] p.kind = "nested" /\ p.repeated /\ ~ IsPropertyWrapper(decls, p) ->
                      << Table(ctx \o "_" \o p.name, below,
                               << Fld(ParentKey, 1, 1, below) >>
                                  \o ClassFields(decls, p.content, "", below)) >>
                        \o ChildTables(decls, p.content, ctx \o "_" \o p.name, below)
                 [] p.kind = "ref" /\ p.repeated /\ t.abstract ->
                      JunctionsOf(decls, ctx, t, path)
                 [] p.kind = "ref" /\ p.repeated /\ ~ t.abstract ->
                      << Table(ctx \o "_" \o t.name, Append(path, Step(FALSE, t.ns, t.name)),
                               << Fld(ParentKey, 1, 1, path),
                                  KeyField(t.name,
                                           Append(path, Step(FALSE, t.ns, t.name))) >>) >>
                 [] OTHER -> <<>>
         IN own \o ChildTables(decls, Tail(content), ctx, path)

\* One table per concrete top-level element, in schema order, then the
\* tables their content models add.
RECURSIVE AllChildTables(_, _)
AllChildTables(decls, es) ==
    IF es = <<>> THEN <<>>
    ELSE LET e == Head(es) IN
         (IF e.abstract THEN <<>>
          ELSE ChildTables(decls, e.content, TableName(decls, e),
                           << Step(FALSE, e.ns, e.name) >>))
            \o AllChildTables(decls, Tail(es))

BuildClasses(decls) ==
    LET Concrete(e) == ~ e.abstract
        tops == SelectSeq(decls, Concrete)
    IN [i \in 1..Len(tops) |->
           Table(TableName(decls, tops[i]), << Step(FALSE, tops[i].ns, tops[i].name) >>,
                 ClassFields(decls, tops[i].content, "",
                             << Step(FALSE, tops[i].ns, tops[i].name) >>))]
       \o AllChildTables(decls, decls)

BuildModel(loaded) ==
    IF DeclaredElements(loaded) # <<>>
    THEN BuildClasses(InstantiatedElements(DeclaredElements(loaded)))
    ELSE << [name |-> "main_elt", xpath |-> "main_elt", elems |-> DeclaredElems(loaded)] >>

\* A Field that holds an array: its element may occur more than once.
IsArray(e) == e.maxOccurs > 1

\* The child tables that stand for the array Fields of the tables i.., in the
\* order of the tables and of their Fields: the key of the parent row and the
\* value of one occurrence.
RECURSIVE ArrayTables(_, _)
ArrayTables(tables, i) ==
    IF i > Len(tables) THEN <<>>
    ELSE LET arrays == SelectSeq(tables[i].elems, IsArray)
         IN [k \in 1..Len(arrays) |->
                [name  |-> tables[i].name \o "_" \o arrays[k].name,
                 xpath |-> PathText(arrays[k].path),
                 elems |-> << Fld(ParentKey, 1, 1, arrays[k].path),
                              Fld("value", 0, 1, arrays[k].path) >>]]
            \o ArrayTables(tables, i + 1)

\* (the array Fields kept whatever UseArrays says)
LayerBuildingRules_always_arrays(conf, tables) == tables

\* (the array Fields dropped without a child table in their place)
LayerBuildingRules_without_tables(conf, tables) ==
    IF conf.UseArrays THEN tables
    ELSE LET Single(e) == ~ IsArray(e) IN
         [i \in 1..Len(tables) |->
             [tables[i] EXCEPT !.elems = SelectSeq(@, Single)]]

\* LayerBuildingRules: with UseArrays the repeated simple elements stay array
\* Fields of their table; without it each becomes a child table.
LayerBuildingRules(conf, tables) ==
    IF conf.UseArrays THEN tables
    ELSE LET Single(e) == ~ IsArray(e) IN
         [i \in 1..Len(tables) |->
             [tables[i] EXCEPT !.elems = SelectSeq(@, Single)]]
         \o ArrayTables(tables, 1)

TableNames(layers) == { layers[i].name : i \in 1..Len(layers) }

FieldNames(class) == { class.elems[i].name : i \in 1..Len(class.elems) }

FieldXPath(class, n) == class.xpath \o "/" \o n

\* The first IgnoredXPaths rule that matches a source XPath, 0 when none does.
RECURSIVE FirstMatchingRule(_, _, _)
FirstMatchingRule(body, path, i) ==
    IF i > Len(body.XPaths) THEN 0
    ELSE IF MatchesXPath(body.XPaths[i], path, body.Namespaces) THEN i
    ELSE FirstMatchingRule(body, path, i + 1)

\* (the flag of the rule set taken even when the rule gives its own)
WarnFlag_ignores_rule(body, i) ==
    IF body.WarnDefault # "" THEN body.WarnDefault = "true" ELSE TRUE

\* The warn flag of rule i: its own attribute, else the one of the rule set,
\* else true.
WarnFlag(body, i) ==
    IF body.XPathWarn[i] # "" THEN body.XPathWarn[i] = "true"
    ELSE IF body.WarnDefault # "" THEN body.WarnDefault = "true"
    ELSE TRUE

\* (the Fields kept in the tables, the rules serving the warnings only)
ApplyIgnoredXPaths_keeps_fields(layers, body) ==
    [l \in 1..Len(layers) |->
        [name |-> layers[l].name, xpath |-> layers[l].xpath,
         elems |-> layers[l].elems, ignored |-> <<>>]]

\* The exclusion engine on the built tables: the Fields an IgnoredXPaths rule
\* matches leave the table; ignored keeps {name, about, warn} for the mapper.
ApplyIgnoredXPaths(layers, body) ==
    [l \in 1..Len(layers) |->
        LET Kept(e)    == FirstMatchingRule(body, e.path, 1) = 0
            Dropped(e) == ~ Kept(e)
            gone       == SelectSeq(layers[l].elems, Dropped)
        IN [name  |-> layers[l].name, xpath |-> layers[l].xpath,
            elems |-> SelectSeq(layers[l].elems, Kept),
            ignored |-> [i \in 1..Len(gone) |->
                            [name  |-> gone[i].name,
                             about |-> PathText(gone[i].path),
                             warn  |-> WarnFlag(body,
                                          FirstMatchingRule(body, gone[i].path, 1))]]]]

\* The metadata tables: the reflection of the Fields with their XPaths, of the
\* tables and of the relationships.
MetadataLayers ==
    [i \in 1..3 |->
        [name  |-> << "_ogr_fields_metadata", "_ogr_layers_metadata",
                      "_ogr_layer_relationships" >>[i],
         xpath |-> "", elems |-> <<>>, ignored |-> <<>>]]

\* (the metadata tables exposed whatever the configuration says)
Exposed_always(conf, layers) == layers \o MetadataLayers

\* The tables the dataset lists: those of the model, and the metadata tables
\* when ExposeMetadataLayers is in effect.
Exposed(conf, layers) ==
    IF conf.ExposeMetadataLayers THEN layers \o MetadataLayers ELSE layers

(***************************************************************************)
(* Diagnostics: what the error handler installed by the caller receives,   *)
(* (class, about); about is the identifier the text names, Null if none.   *)
(***************************************************************************)
Diagnostic(class, about) == [class |-> class, about |-> about]

FatalClasses ==
    { "SchemaNotFound", "SchemaInvalid", "XPathSyntaxError", "PrefixAlreadyMapped",
      "ConfigurationInvalid", "NoSchemaLocation", "ValidationFailed",
      "MalformedDocument" }

(***************************************************************************)
(* Validation Adapter (4.5): the violations of a document against the      *)
(* declared content model of its root, in document order, then the         *)
(* required elements that are missing, in schema order.                    *)
(***************************************************************************)
Occurrences(children, n, upto) ==
    Cardinality({ i \in 1..upto : children[i].name = n })

MaxOccursOf(class, n) ==
    LET i == CHOOSE j \in 1..Len(class.elems) : class.elems[j].name = n
    IN class.elems[i].maxOccurs

RECURSIVE ContentViolations(_, _, _)
ContentViolations(class, children, i) ==
    IF i > Len(children) THEN <<>>
    ELSE LET n == children[i].name
             here == IF n \notin FieldNames(class)
                     THEN << Diagnostic("ValidationError", "not allowed: " \o FieldXPath(class, n)) >>
                     ELSE IF Occurrences(children, n, i) > MaxOccursOf(class, n)
                     THEN << Diagnostic("ValidationError", "too many: " \o FieldXPath(class, n)) >>
                     ELSE <<>>
         IN here \o ContentViolations(class, children, i + 1)

RECURSIVE MissingViolations(_, _, _)
MissingViolations(class, children, j) ==
    IF j > Len(class.elems) THEN <<>>
    ELSE LET e == class.elems[j]
             here == IF Occurrences(children, e.name, Len(children)) < e.minOccurs
                     THEN << Diagnostic("ValidationError", "missing: " \o FieldXPath(class, e.name)) >>
                     ELSE <<>>
         IN here \o MissingViolations(class, children, j + 1)

Validate(d, layers) ==
    IF ~ d.present THEN <<>>
    ELSE ContentViolations(layers[1], d.children, 1)
         \o MissingViolations(layers[1], d.children, 1)
         \o (IF d.closed THEN <<>>
             ELSE << Diagnostic("ValidationError", "unterminated: main_elt") >>)

(***************************************************************************)
(* gdal.OpenEx('GMLAS:...', open_options = ...): the whole open, as a      *)
(* function of the document, the options and the environment.              *)
(* {ds, layers, sink, env}: ds is "open" or "none" (OpenEx returned None). *)
(***************************************************************************)
OpenFailed(class, about, diags, env) ==
    [ds |-> "none", layers |-> <<>>,
     sink |-> Append(diags, Diagnostic(class, about)), env |-> env]

Opened(layers, diags, env) ==
    [ds |-> "open", layers |-> layers, sink |-> diags, env |-> env]

\* (FailIfError not honoured: the dataset opens whatever validation reports)
OpenValidated_ignores_fail(d, conf, layers, env) ==
    Opened(layers, IF conf.Validate THEN Validate(d, layers) ELSE <<>>, env)

\* (any validation diagnostic fails the open, FailIfError set or not)
OpenValidated_always_fails(d, conf, layers, env) ==
    LET diags == IF conf.Validate THEN Validate(d, layers) ELSE <<>> IN
    IF conf.Validate /\ diags # <<>>
    THEN OpenFailed("ValidationFailed", Null, diags, env)
    ELSE Opened(layers, diags, env)

\* (validation runs although it was not asked for)
OpenValidated_by_default(d, conf, layers, env) ==
    LET diags == Validate(d, layers) IN
    IF conf.FailIfError /\ diags # <<>>
    THEN OpenFailed("ValidationFailed", Null, diags, env)
    ELSE Opened(layers, diags, env)

\* Validation, then the decision to fail the open (4.5).
OpenValidated(d, conf, layers, env) ==
    LET diags == IF conf.Validate THEN Validate(d, layers) ELSE <<>> IN
    IF conf.Validate /\ conf.FailIfError /\ diags # <<>>
    THEN OpenFailed("ValidationFailed", Null, diags, env)
    ELSE Opened(layers, diags, env)

\* (the XSD open option not taken as the entry schema)
EntryRef_ignores_option(d, o) == d.schemaLocation

\* The entry schema: the XSD open option, else the document's schemaLocation.
EntryRef(d, o) == IF o.XSD # "" THEN o.XSD ELSE d.schemaLocation

\* (a dataset made of the schemas loaded before the failure)
OpenSchemas_partial_dataset(d, opts, conf, srv, env) ==
    LET entry == EntryRef(d, opts) IN
    IF entry = ""
    THEN OpenFailed("NoSchemaLocation", Null, <<>>, env)
    ELSE LET r == ResolveAll(<< entry >>, <<>>, conf, srv, env) IN
         IF r.error # ""
         THEN Opened(Exposed(conf,
                         ApplyIgnoredXPaths(LayerBuildingRules(conf, BuildModel(r.loaded)),
                                            opts.CONFIG_FILE.body)),
                     << Diagnostic(r.error, r.ident) >>, r.env)
         ELSE OpenValidated(d, conf,
                   Exposed(conf,
                       ApplyIgnoredXPaths(LayerBuildingRules(conf, BuildModel(r.loaded)),
                                          opts.CONFIG_FILE.body)), r.env)

\* Schema resolution, model building and exclusion (4.1, 4.2).
OpenSchemas(d, opts, conf, srv, env) ==
    LET entry == EntryRef(d, opts) IN
    IF entry = ""
    THEN OpenFailed("NoSchemaLocation", Null, <<>>, env)
    ELSE LET r == ResolveAll(<< entry >>, <<>>, conf, srv, env) IN
         IF r.error # ""
         THEN OpenFailed(r.error, r.ident, <<>>, r.env)
         ELSE OpenValidated(d, conf,
                   Exposed(conf,
                       ApplyIgnoredXPaths(LayerBuildingRules(conf, BuildModel(r.loaded)),
                                          opts.CONFIG_FILE.body)), r.env)

OpenEx(d, opts, srv, cache) ==
    LET cfg  == opts.CONFIG_FILE
        conf == EffectiveConfiguration(opts)
        env  == [cache |-> cache, net |-> <<>>]
        dup  == DuplicatePrefix(cfg.body.Namespaces, 1)
        bad  == FirstBadXPath(cfg.body.XPaths, 1)
    IN IF cfg.kind \in { "missing", "broken" }
       THEN OpenFailed("ConfigurationInvalid", cfg.name, <<>>, env)
       ELSE IF dup # ""
       THEN OpenFailed("PrefixAlreadyMapped", dup, <<>>, env)
       ELSE IF bad # 0
       THEN OpenFailed("XPathSyntaxError", PatternText(cfg.body.XPaths[bad]), <<>>, env)
       ELSE IF ~ d.present /\ opts.XSD = ""
       THEN OpenFailed("ConfigurationInvalid", Null, <<>>, env)
       ELSE OpenSchemas(d, opts, conf, srv, env)

(***************************************************************************)
(* Instance Mapper (4.4) for one root element: the children are matched    *)
(* against the Fields of the root's class in document order.               *)
(***************************************************************************)
EmptyFeature(class) == [n \in FieldNames(class) |-> Null]

\* (an element the class does not model reported to the error handler)
StartElement_reports_unexpected(class, st, c) ==
    IF c.name \notin FieldNames(class)
    THEN [st EXCEPT !.diags = Append(@, Diagnostic("UnexpectedElement",
                                                   FieldXPath(class, c.name)))]
    ELSE IF st.fields[c.name] # Null
    THEN [fields |-> [st.fields EXCEPT ![c.name] = c.text],
          diags  |-> Append(st.diags,
                        Diagnostic("DuplicateNonArrayField", FieldXPath(class, c.name)))]
    ELSE [fields |-> [st.fields EXCEPT ![c.name] = c.text], diags |-> st.diags]

\* (the first value kept instead of the later one)
StartElement_keeps_first(class, st, c) ==
    IF c.name \notin FieldNames(class)
    THEN st
    ELSE IF st.fields[c.name] # Null
    THEN [fields |-> st.fields,
          diags  |-> Append(st.diags,
                        Diagnostic("DuplicateNonArrayField", FieldXPath(class, c.name)))]
    ELSE [fields |-> [st.fields EXCEPT ![c.name] = c.text], diags |-> st.diags]

\* A child element opens inside the frame of class: {fields, diags}.
\* Not modelled by the class: its subtree is skipped, with a diagnostic when
\* a rule excluded it and asks for the warning.  An array Field takes every
\* value.  A Field that already holds a value: the later value is kept and
\* the duplicate is reported.
StartElement(class, st, c) ==
    IF c.name \notin FieldNames(class)
    THEN LET ign == { i \in 1..Len(class.ignored) : class.ignored[i].name = c.name }
         IN IF \E i \in ign : class.ignored[i].warn
            THEN [st EXCEPT !.diags =
                     Append(@, Diagnostic("IgnoredXPathMatchedInInstance",
                                          class.ignored[CHOOSE i \in ign : TRUE].about))]
            ELSE st
    ELSE IF MaxOccursOf(class, c.name) > 1
    THEN [st EXCEPT !.fields[c.name] = IF @ = Null THEN c.text ELSE @ \o "," \o c.text]
    ELSE IF st.fields[c.name] # Null
    THEN [fields |-> [st.fields EXCEPT ![c.name] = c.text],
          diags  |-> Append(st.diags,
                        Diagnostic("DuplicateNonArrayField", FieldXPath(class, c.name)))]
    ELSE [fields |-> [st.fields EXCEPT ![c.name] = c.text], diags |-> st.diags]

RECURSIVE ReadChildren(_, _, _, _)
ReadChildren(class, children, i, st) ==
    IF i > Len(children) THEN st
    ELSE ReadChildren(class, children, i + 1, StartElement(class, st, children[i]))

\* The rows of the child table of an array Field of the root element: one
\* per occurrence, with the key of the row of the root.
ReadOccurrences(parent, class, d, pkid) ==
    LET Mine(c) == parent.name \o "_" \o c.name = class.name
        hits == SelectSeq(d.children, Mine)
    IN [k \in 1..Len(hits) |->
           [ogr_pkid |-> k,
            fields   |-> (ParentKey :> pkid) @@ ("value" :> hits[k].text)]]

\* The root element read up to its end tag: the Feature and the diagnostics.
ReadRoot(class, d, pkid) ==
    LET st == ReadChildren(class, d.children, 1,
                           [fields |-> EmptyFeature(class), diags |-> <<>>])
    IN [feature |-> [ogr_pkid |-> pkid, fields |-> st.fields], diags |-> st.diags]

(***************************************************************************)
(* Instance Mapper (4.4) on a document tree: the rows of every table.      *)
(***************************************************************************)
\* The top-level element declarations behind a schema reference.
RECURSIVE SchemaElements(_)
SchemaElements(ref) ==
    LET c == SchemaContent(ref)
        inc[i \in 0..Len(c.includes)] ==
            IF i = 0 THEN <<>> ELSE inc[i - 1] \o SchemaElements(c.includes[i])
    IN (IF "decls" \in DOMAIN c THEN c.decls ELSE <<>>) \o inc[Len(c.includes)]

\* The child elements of a node with a given name, as indices; ns is compared
\* for references to top-level elements only.
KidsNamed(node, n) == { i \in 1..Len(node.kids) : node.kids[i].name = n }

KidsOf(node, e) ==
    { i \in 1..Len(node.kids) : node.kids[i].name = e.name /\ node.kids[i].ns = e.ns }

Last(S) == CHOOSE i \in S : \A j \in S : j <= i

\* The primary key of the row of an element: the value of its xs:ID
\* attribute when it has one, else a key generated from its place.
KeyOf(e, node, addr) ==
    IF node.id # "" THEN node.id ELSE e.name \o ToString(addr)

Unset(fields) ==
    [i \in 1..Len(fields) |->
        << fields[i].name, IF fields[i].maxOccurs > 1 THEN <<>> ELSE Null >>]

\* The values a content model gives to the Fields of ClassFields, in the same
\* order: << name, value >>.
RECURSIVE FieldValues(_, _, _, _, _)
FieldValues(decls, content, pre, node, addr) ==
    IF content = <<>> THEN <<>>
    ELSE LET p == Head(content)
             t == Lookup(decls, p.ns, p.name)
             R == Realizations(decls, t)
             K == KidsNamed(node, p.name)
             own ==
               CASE p.kind = "simple" /\ p.repeated ->
                      LET Named(k) == k.name = p.name
                          hits == SelectSeq(node.kids, Named)
                      IN << << pre \o p.name, [i \in 1..Len(hits) |-> hits[i].text] >> >>
                 [] p.kind = "simple" /\ ~ p.repeated ->
                      << << pre \o p.name,
                            IF K = {} THEN Null ELSE node.kids[Last(K)].text >> >>
                 [] p.kind = "id" ->
                      << << pre \o p.name, IF node.id = "" THEN Null ELSE node.id >> >>
                 [] p.kind = "nested" /\ ~ p.repeated ->
                      IF K = {}
                      THEN Unset(ClassFields(decls, p.content, pre \o p.name \o "_", <<>>))
                      ELSE FieldValues(decls, p.content, pre \o p.name \o "_",
                                       node.kids[Last(K)], Append(addr, Last(K)))
                 [] p.kind = "ref" /\ ~ p.repeated /\ t.abstract ->
                      [r \in 1..Len(R) |->
                          << pre \o t.name \o "_" \o TableName(decls, R[r]) \o "_pkid",
                             IF KidsOf(node, R[r]) = {} THEN Null
                             ELSE KeyOf(R[r], node.kids[Last(KidsOf(node, R[r]))],
                                        Append(addr, Last(KidsOf(node, R[r])))) >>]
                 [] p.kind = "ref" /\ ~ p.repeated /\ ~ t.abstract ->
                      IF IdAttrOf(t) # ""
                      THEN << << pre \o t.name \o "_" \o IdAttrOf(t),
                                 IF KidsOf(node, t) = {} THEN Null
                                 ELSE node.kids[Last(KidsOf(node, t))].id >> >>
                      ELSE << << pre \o t.name \o "_pkid",
                                 IF KidsOf(node, t) = {} THEN Null
                                 ELSE KeyOf(t, node.kids[Last(KidsOf(node, t))],
                                            Append(addr, Last(KidsOf(node, t)))) >> >>
                 [] p.kind = "link" ->
                      << << pre \o p.name \o "_href",
                            IF K = {} THEN Null ELSE "#" \o node.kids[Last(K)].text >> >>
                      \o (IF Lookup(decls, "", p.target).abstract THEN <<>>
                          ELSE << << pre \o p.name \o "_pkid",
                                     IF K = {} THEN Null ELSE node.kids[Last(K)].text >> >>)
                 [] OTHER -> <<>>
         IN own \o FieldValues(decls, Tail(content), pre, node, addr)

Row(layer, key, pairs) ==
    [layer |-> layer, ogr_pkid |-> key,
     fields |-> [n \in { pairs[i][1] : i \in 1..Len(pairs) } |->
                   pairs[CHOOSE i \in 1..Len(pairs) : pairs[i][1] = n][2]]]

\* (the junction row written without the key of the child)
JunctionRow_without_child(layer, key, parent, child, childKey) ==
    Row(layer, key, << << ParentKey, parent >>, << child \o "_pkid", Null >> >>)

\* (the junction row written before the key of the parent is known)
JunctionRow_without_parent(layer, key, parent, child, childKey) ==
    Row(layer, key, << << ParentKey, Null >>, << child \o "_pkid", childKey >> >>)

\* A junction row: the key of the parent and the key of the target row.
JunctionRow(layer, key, parent, child, childKey) ==
    Row(layer, key, << << ParentKey, parent >>, << child \o "_pkid", childKey >> >>)

\* The rows an element of the document and its content produce, each when
\* its element is closed: ElementRows for an occurrence of a top-level
\* element, ContentRows for what a content model finds below a node, and
\* EachKid for the occurrences i.. of a repeated particle.
RECURSIVE ElementRows(_, _, _, _)
RECURSIVE ContentRows(_, _, _, _, _, _)
RECURSIVE EachKid(_, _, _, _, _, _, _)
ElementRows(decls, e, node, addr) ==
    ContentRows(decls, e.content, TableName(decls, e), node, addr, KeyOf(e, node, addr))
      \o << Row(TableName(decls, e), KeyOf(e, node, addr),
                FieldValues(decls, e.content, "", node, addr)) >>

EachKid(decls, p, ctx, node, addr, parent, i) ==
    IF i > Len(node.kids) THEN <<>>
    ELSE LET k    == node.kids[i]
             here == Append(addr, i)
             t    == Lookup(decls, p.ns, p.name)
             R    == Realizations(decls, t)
             own ==
               CASE p.kind = "nested" /\ k.name = p.name /\ IsPropertyWrapper(decls, p) ->
                      LET c == Lookup(decls, p.content[1].ns, p.content[1].name)
                          C == KidsOf(k, c)
                      IN (IF C = {} THEN <<>>
                          ELSE ElementRows(decls, c, k.kids[Last(C)], Append(here, Last(C))))
                         \o << JunctionRow(ctx \o "_" \o p.name,
                                           p.name \o ToString(here), parent, c.name,
                                           IF C = {} THEN Null
                                           ELSE KeyOf(c, k.kids[Last(C)],
                                                      Append(here, Last(C)))) >>
                 [] p.kind = "nested" /\ k.name = p.name /\ ~ IsPropertyWrapper(decls, p) ->
                      ContentRows(decls, p.content, ctx \o "_" \o p.name, k, here,
                                  p.name \o ToString(here))
                        \o << Row(ctx \o "_" \o p.name, p.name \o ToString(here),
                                  << << ParentKey, parent >> >>
                                    \o FieldValues(decls, p.content, "", k, here)) >>
                 [] p.kind = "ref" /\ t.abstract
                      /\ (\E r \in 1..Len(R) : R[r].name = k.name /\ R[r].ns = k.ns) ->
                      LET r == R[CHOOSE r \in 1..Len(R) :
                                    R[r].name = k.name /\ R[r].ns = k.ns]
                      IN ElementRows(decls, r, k, here)
                         \o << JunctionRow(ctx \o "_" \o t.name \o "_" \o TableName(decls, r),
                                           "junction" \o ToString(here), parent,
                                           TableName(decls, r), KeyOf(r, k, here)) >>
                 [] p.kind = "ref" /\ ~ t.abstract /\ k.name = t.name /\ k.ns = t.ns ->
                      ElementRows(decls, t, k, here)
                         \o << JunctionRow(ctx \o "_" \o t.name, "junction" \o ToString(here),
                                           parent, t.name, KeyOf(t, k, here)) >>
                 [] OTHER -> <<>>
         IN own \o EachKid(decls, p, ctx, node, addr, parent, i + 1)

ContentRows(decls, content, ctx, node, addr, parent) ==
    IF content = <<>> THEN <<>>
    ELSE LET p == Head(content)
             t == Lookup(decls, p.ns, p.name)
             R == Realizations(decls, t)
             K == KidsNamed(node, p.name)
             own ==
               CASE p.kind = "nested" /\ ~ p.repeated ->
                      IF K = {} THEN <<>>
                      ELSE ContentRows(decls, p.content, ctx \o "_" \o p.name,
                                       node.kids[Last(K)], Append(addr, Last(K)), parent)
                 [] p.kind \in { "nested", "ref" } /\ p.repeated ->
                      EachKid(decls, p, ctx, node, addr, parent, 1)
                 [] p.kind = "ref" /\ ~ p.repeated /\ t.abstract ->
                      LET hit == { r \in 1..Len(R) : KidsOf(node, R[r]) # {} } IN
                      IF hit = {} THEN <<>>
                      ELSE LET r == R[Last(hit)] IN
                           ElementRows(decls, r, node.kids[Last(KidsOf(node, r))],
                                       Append(addr, Last(KidsOf(node, r))))
                 [] p.kind = "ref" /\ ~ p.repeated /\ ~ t.abstract ->
                      IF KidsOf(node, t) = {} THEN <<>>
                      ELSE ElementRows(decls, t, node.kids[Last(KidsOf(node, t))],
                                       Append(addr, Last(KidsOf(node, t))))
                 [] OTHER -> <<>>
         IN own \o ContentRows(decls, Tail(content), ctx, node, addr, parent)

\* The rows of the child table of the array Field e of a row: one per value,
\* written before the row of the parent.
OccurrenceRows_first_only(row, e) ==
    IF row.fields[e.name] = <<>> THEN <<>>
    ELSE << Row(row.layer \o "_" \o e.name, row.ogr_pkid \o "_" \o e.name \o "1",
                << << ParentKey, row.ogr_pkid >>, << "value", row.fields[e.name][1] >> >>) >>

OccurrenceRows(row, e) ==
    [k \in 1..Len(row.fields[e.name]) |->
        Row(row.layer \o "_" \o e.name, row.ogr_pkid \o "_" \o e.name \o ToString(k),
            << << ParentKey, row.ogr_pkid >>, << "value", row.fields[e.name][k] >> >>)]

\* The rows with the array Fields of the tables written as rows of their
\* child tables.
RECURSIVE ArrayRows(_, _, _)
RECURSIVE WithoutArrays(_, _, _)
ArrayRows(row, arrays, k) ==
    IF k > Len(arrays) THEN <<>>
    ELSE OccurrenceRows(row, arrays[k]) \o ArrayRows(row, arrays, k + 1)

WithoutArrays(rows, tables, i) ==
    IF i > Len(rows) THEN <<>>
    ELSE LET T == { t \in 1..Len(tables) : tables[t].name = rows[i].layer }
             arrays == IF T = {} THEN <<>>
                       ELSE SelectSeq(tables[CHOOSE t \in T : TRUE].elems, IsArray)
         IN ArrayRows(rows[i], arrays, 1) \o << rows[i] >>
              \o WithoutArrays(rows, tables, i + 1)

\* Link resolution.  A row read from the document holds, in a link Field,
\* the identifier its xlink:href refers to.  The registry after the rows
\* 1..k are closed: << identifier, key >> of every row of an element with an
\* xs:ID attribute.
Registry(decls, rows, k) ==
    UNION { { << rows[i].fields[IdAttrOf(decls[e])], rows[i].ogr_pkid >> :
                e \in { x \in 1..Len(decls) :
                           /\ ~ decls[x].abstract
                           /\ TableName(decls, decls[x]) = rows[i].layer
                           /\ IdAttrOf(decls[x]) # ""
                           /\ rows[i].fields[IdAttrOf(decls[x])] # Null } } :
            i \in 1..k }

KeyUnder(registry, id) ==
    IF \E r \in registry : r[1] = id
    THEN (CHOOSE r \in registry : r[1] = id)[2]
    ELSE Null

\* The link Fields of the table a row belongs to.
LinkFieldsOf(tables, row) ==
    LET T == { t \in 1..Len(tables) : tables[t].name = row.layer }
    IN IF T = {} THEN <<>>
       ELSE SelectSeq(tables[CHOOSE t \in T : TRUE].elems, IsLinkField)

\* (no second look at the links left open when their row was closed)
ResolveLinks_without_retry(decls, tables, rows) ==
    [i \in 1..Len(rows) |->
        LET L == LinkFieldsOf(tables, rows[i]) IN
        [rows[i] EXCEPT !.fields =
            [n \in DOMAIN rows[i].fields |->
                IF rows[i].fields[n] # Null /\ \E l \in 1..Len(L) : L[l].name = n
                THEN KeyUnder(Registry(decls, rows, i), rows[i].fields[n])
                ELSE rows[i].fields[n]]]]

\* A link is resolved when its row is closed if the identifier is registered
\* by then, else once more at the end of the document; what is still
\* unresolved then is left null.
ResolveLinks(decls, tables, rows) ==
    [i \in 1..Len(rows) |->
        LET L == LinkFieldsOf(tables, rows[i]) IN
        [rows[i] EXCEPT !.fields =
            [n \in DOMAIN rows[i].fields |->
                IF rows[i].fields[n] # Null /\ \E l \in 1..Len(L) : L[l].name = n
                THEN LET id == rows[i].fields[n]
                         atClose == KeyUnder(Registry(decls, rows, i), id)
                     IN IF atClose # Null THEN atClose
                        ELSE KeyUnder(Registry(decls, rows, Len(rows)), id)
                ELSE rows[i].fields[n]]]]

\* The identifiers the rows i.. of a table refer to and that no element of
\* the document bears, in the order of the rows and of their Fields.
RECURSIVE Residual(_, _, _, _, _)
Residual(decls, tables, rows, layer, i) ==
    IF i > Len(rows) THEN <<>>
    ELSE LET L == LinkFieldsOf(tables, rows[i])
             Left(l) == /\ rows[i].layer = layer
                        /\ rows[i].fields[l.name] # Null
                        /\ KeyUnder(Registry(decls, rows, Len(rows)),
                                    rows[i].fields[l.name]) = Null
             left == SelectSeq(L, Left)
         IN [k \in 1..Len(left) |-> rows[i].fields[left[k].name]]
            \o Residual(decls, tables, rows, layer, i + 1)

HasLinks(tables) ==
    \E t \in 1..Len(tables) : \E i \in 1..Len(tables[t].elems) :
        IsLinkField(tables[t].elems[i])

\* The rows as the document gives them, before the links are resolved.
ReadRows(conf, d, decls) ==
    LET read == ElementRows(decls, Lookup(decls, d.root.ns, d.root.name), d.root, <<>>)
    IN IF conf.UseArrays THEN read ELSE WithoutArrays(read, BuildClasses(decls), 1)

\* The rows read, their links resolved when a table has a link Field.
Resolved(decls, tables, rows) ==
    IF HasLinks(tables) THEN ResolveLinks(decls, tables, rows) ELSE rows

\* The rows of every table, in the order their elements are closed.
EmittedRows(conf, d, decls) ==
    Resolved(decls, BuildClasses(decls), ReadRows(conf, d, decls))

\* One LinkUnresolved diagnostic per identifier left unresolved in a table.
UnresolvedLinks(decls, tables, rows, layer) ==
    LET left == IF HasLinks(tables) THEN Residual(decls, tables, rows, layer, 1)
                ELSE <<>>
    IN [k \in 1..Len(left) |-> Diagnostic("LinkUnresolved", left[k])]

\* What the handler receives at the end of the document read for a table.
LinkDiagnostics(conf, class, d, decls) ==
    UnresolvedLinks(decls, BuildClasses(decls), ReadRows(conf, d, decls), class.name)

\* (every row of a table given the key of its first row)
LayerRows_shared_key(conf, class, d, decls) ==
    LET Mine(r) == r.layer = class.name
        mine == SelectSeq(EmittedRows(conf, d, decls), Mine)
    IN [i \in 1..Len(mine) |->
           [ogr_pkid |-> mine[1].ogr_pkid,
            fields   |-> [n \in FieldNames(class) |-> mine[i].fields[n]]]]

\* The rows of a table as features: the key and the Fields the table has.
Projected(class, mine) ==
    [i \in 1..Len(mine) |->
        [ogr_pkid |-> mine[i].ogr_pkid,
         fields   |-> [n \in FieldNames(class) |-> mine[i].fields[n]]]]

\* The rows of the table called n, in document order, with the Fields the
\* table has.
LayerRows(conf, class, d, decls) ==
    LET Mine(r) == r.layer = class.name
    IN Projected(class, SelectSeq(EmittedRows(conf, d, decls), Mine))

(***************************************************************************)
(* Instance Mapper (4.4), geometry extraction: the positions are           *)
(* deserialized, ordered by the axis-order policy and reprojected into the *)
(* reference system of the geometry field.                                 *)
(***************************************************************************)
\* The reference system an srsName names.
CodeOf(srsName) ==
    CASE srsName \in { URN_4326, "EPSG:4326" } -> "4326"
      [] srsName = "EPSG:32631" -> "32631"
      [] OTHER -> ""

\* The srsName declares latitude before longitude: the urn form of a
\* geographic reference system.
LatitudeFirst(srsName) == srsName = URN_4326

Exchange(pos) == [i \in 1..Len(pos) |-> << pos[i][2], pos[i][1] >>]

\* (the policy 'auto' never exchanging)
Swaps_auto_never(policy, srsName) == policy = "YES"

\* (a forced policy overruled by the declared axis order)
Swaps_declared_only(policy, srsName) == LatitudeFirst(srsName)

\* The axis-order policy: forced, or by the declared axis order.
Swaps(policy, srsName) ==
    CASE policy = "YES" -> TRUE
      [] policy = "NO" -> FALSE
      [] OTHER -> LatitudeFirst(srsName)

\* UTM zone 31 north to longitude and latitude, in degrees, for eastings and
\* northings in units of 100 km: the central meridian (easting 5) is
\* longitude 3 and a unit is taken for a degree.  Eastings outside 1..9 and
\* northings beyond 90 are outside the domain of the projection.
InDomain(p) == p[1] \in 1..9 /\ p[2] \in 0..90

Reproject(pos) == [i \in 1..Len(pos) |-> << pos[i][1] - 2, pos[i][2] >>]

\* (a geometry that cannot be reprojected kept as it was written)
GeometryValue_keeps_unprojected(policy, g, target) ==
    [geom |-> IF Swaps(policy, g.srsName) THEN Exchange(g.pos) ELSE g.pos, diags |-> <<>>]

\* The value of a geometry field and the diagnostics of its extraction;
\* None is the null geometry.
GeometryValue(policy, g, target) ==
    LET ordered == IF Swaps(policy, g.srsName) THEN Exchange(g.pos) ELSE g.pos IN
    IF CodeOf(g.srsName) \in { "", target }
    THEN [geom |-> ordered, diags |-> <<>>]
    ELSE IF \A i \in 1..Len(ordered) : InDomain(ordered[i])
    THEN [geom |-> Reproject(ordered), diags |-> <<>>]
    ELSE [geom |-> None, diags |-> << Diagnostic("ReprojectionFailed", g.name) >>]

\* The Feature of member k and the diagnostics of its geometries, in the
\* order of the geometries.
RECURSIVE ReadGeometries(_, _, _, _, _)
ReadGeometries(policy, class, gs, i, st) ==
    IF i > Len(gs) THEN st
    ELSE LET E == { e \in 1..Len(class.elems) : class.elems[e].name = gs[i].name } IN
         IF E = {} THEN ReadGeometries(policy, class, gs, i + 1, st)
         ELSE LET v == GeometryValue(policy, gs[i],
                                     class.elems[CHOOSE e \in E : TRUE].srs)
              IN ReadGeometries(policy, class, gs, i + 1,
                     [fields |-> [st.fields EXCEPT ![gs[i].name] = v.geom],
                      diags  |-> st.diags \o v.diags])

ReadMember(conf, class, d, k) ==
    LET st == ReadGeometries(conf.SwapCoordinates, class, d.members[k], 1,
                             [fields |-> [n \in FieldNames(class) |-> None],
                              diags |-> <<>>])
    IN [feature |-> [ogr_pkid |-> k, fields |-> st.fields], diags |-> st.diags]

(***************************************************************************)
(* The open options the callers pass.                                      *)
(***************************************************************************)
DefaultOptions == OpenOptions("", "", "", "", ConfigAbsent)

ValidationOptions ==
    { OpenOptions("", "YES", "", "", ConfigAbsent),
      OpenOptions(PATH_validate, "YES", "", "", ConfigAbsent),
      OpenOptions("", "YES", "YES", "", ConfigAbsent),
      OpenOptions("", "", "YES", "", ConfigAbsent),
      OpenOptions("", "", "", "", CONF_validation_fail) }

CacheOptions ==
    { OpenOptions(xsd, "", "", refresh, conf) :
        xsd \in { "", URL_cache }, refresh \in { "", "YES" },
        conf \in { ConfigAbsent, CONF_cache, CONF_no_download,
                   CONF_no_download_no_cache } }

ErrorOptions ==
    { OpenOptions(xsd, "", "", "", ConfigAbsent) :
        xsd \in { PATH_not_xsd, PATH_i_dont_exist, PATH_validate } }
    \cup
    { OpenOptions(xsd, "", "", "", conf) :
        xsd \in { "", PATH_validate },
        conf \in { ConfigNotExisting, ConfigBroken, CONF_duplicate_prefix,
                   CONF_ignored_xpath, CONF_invalid_xpath(<< "a", ":" >>),
                   CONF_invalid_xpath(<< "foo", "[", "1", "]" >>) } }

\* Generated documents are opened with the validation settings, the document
\* with remote schemas with the resolver settings, the other documents of the
\* fixtures with the options of the failing opens.
OptionsFor(d) ==
    IF d \in GeneratedDocs \cup TruncatedDocs
    THEN { DefaultOptions } \cup ValidationOptions
    ELSE IF d = DOC_cache
    THEN { DefaultOptions, OpenOptions("", "YES", "", "", ConfigAbsent) } \cup CacheOptions
    ELSE { DefaultOptions } \cup ValidationOptions \cup ErrorOptions

\* Generated patterns: up to MaxSteps name steps, separated by "/" or "//",
\* with or without a leading "//".
StepTokens ==
    { << "myns", ":", "main_elt" >>, << "myns", ":", "nested" >>,
      << "myns", ":", "long" >>, << "@", "otherns", ":", "id" >>,
      << "long" >>, << "unknown_ns", ":", "long" >> }

RECURSIVE PatternsOfSteps(_)
PatternsOfSteps(n) ==
    IF n = 1 THEN StepTokens
    ELSE { p \o << ax >> \o t :
             p \in PatternsOfSteps(n - 1), ax \in { "/", "//" }, t \in StepTokens }

GeneratedPatterns ==
    LET ps == UNION { PatternsOfSteps(n) : n \in 1..MaxSteps }
    IN ps \cup { << "//" >> \o p : p \in ps }

\* Namespace tables of up to MaxNamespaces declarations over two prefixes and
\* two URIs: prefixes declared once, twice for one URI, twice for two URIs.
NamespaceDecls ==
    { [prefix |-> p, uri |-> u] : p \in { "ns", "other" }, u \in { "http://ns1", "http://ns2" } }

RECURSIVE NamespaceTablesOf(_)
NamespaceTablesOf(n) ==
    IF n = 0 THEN { <<>> }
    ELSE LET shorter == NamespaceTablesOf(n - 1)
         IN shorter \cup { t \o << d >> : t \in shorter, d \in NamespaceDecls }

NamespaceTables == NamespaceTablesOf(MaxNamespaces)

\* The three flags of a rule or of a rule set: not given, true, false.
Flags == { "", "true", "false" }

WarnConfs ==
    { RuleConf(<<>>, << p >>, d, << w >>) :
        p \in { XPATH_otherns_id, MatchingXPaths[4], MatchingXPaths[5] },
        d \in Flags, w \in Flags }

\* The opens of ogr_gmlas_conf_ignored_xpath and their variations: without a
\* document the rule sets of the tests and one generated pattern at a time
\* against the nested schema; with a document the rule sets that match.
RuleOptions(d) ==
    IF ~ d.present
    THEN { OpenOptions(PATH_gmlas_test1, "", "", "", conf) :
             conf \in { ConfigAbsent, CONF_various_xpaths, CONF_duplicate_prefix,
                        CONF_ignored_xpath, CONF_ignored_xpath_no_warn }
                       \cup { CONF_invalid_xpath(p) : p \in InvalidXPaths }
                       \cup { RuleConf(<<>>, << NoMatchXPaths[i] >>, "", << "" >>) :
                                i \in 1..Len(NoMatchXPaths) }
                       \cup { RuleConf(ns, <<>>, "", <<>>) : ns \in NamespaceTables }
                       \cup { RuleConf(ns, << << "ns", ":", "long" >> >>, "", << "" >>) :
                                ns \in NamespaceTables } }
         \cup { OpenOptions(PATH_nested, "", "", "", conf) :
                  conf \in { ConfigAbsent }
                            \cup { RuleConf(<<>>, << p >>, "", << "" >>) :
                                     p \in GeneratedPatterns } }
    ELSE { OpenOptions("", "", "", "", conf) :
             conf \in { ConfigAbsent, CONF_various_xpaths, CONF_ignored_xpath,
                        CONF_ignored_xpath_no_warn } \cup WarnConfs }

(***************************************************************************)
(* State.                                                                  *)
(***************************************************************************)
VARIABLES
    doc,        \* the instance document 'GMLAS:<doc>' names (NoDocument for 'GMLAS:')
    server,     \* the test web server: "up" or "down"
    cache,      \* URLs whose schema is stored in the cache directory
    unlinked,   \* cache entries deleted from outside since the last open
    opts,       \* open options of the last open
    ds,         \* "unopened", "open", or "none" when OpenEx returned None
    layers,     \* the tables of the dataset
    net,        \* URLs the last open requested from the network
    sink,       \* what the error handler has received since the last open
    reader,     \* layer 0: "start", "emitted", "eos" or "failed"
    f,          \* what the last GetNextFeature returned: << feature >>, or None
    out,        \* the Features layer 0 has returned
    seen,       \* << [opts, error_list] >> of the first open that validated and succeeded
    plain,      \* << [opts, layers, out, lyr] >> of the first complete read with the
                \* default options
    populated,  \* << [entry, layers, untouched] >> of the last open that succeeded and
                \* stored schemas in the cache; untouched until an entry is deleted
    lyr         \* the layer the test reads: its place in layers (1 is ds.GetLayer(0))

vars == << doc, server, cache, unlinked, opts, ds, layers, net, sink, reader, f, out,
          seen, plain, populated, vsimem, lyr >>

\* the options with every validation setting taken out
WithoutValidation(o) ==
    LET b == [o.CONFIG_FILE.body EXCEPT !.ValidationEnabled = "", !.FailIfError = ""]
    IN [o EXCEPT !.VALIDATE = "", !.FAIL_IF_VALIDATION_ERROR = "",
                 !.CONFIG_FILE = IF o.CONFIG_FILE.kind = "inline" /\ b = EmptyConfiguration
                                 THEN ConfigAbsent
                                 ELSE [o.CONFIG_FILE EXCEPT !.body = b]]

\* gdal.GetLastErrorMsg(): the last diagnostic, NoError when there was none
NoError == Diagnostic("", Null)

LastErrorMsg == IF sink = <<>> THEN NoError ELSE sink[Len(sink)]

Init ==
    /\ doc \in Docs
    /\ server = "up"
    /\ cache = {}
    /\ unlinked = {}
    /\ opts = DefaultOptions
    /\ ds = "unopened"
    /\ layers = <<>>
    /\ net = <<>>
    /\ sink = <<>>
    /\ reader = "start"
    /\ f = None
    /\ out = <<>>
    /\ seen = <<>>
    /\ plain = <<>>
    /\ populated = <<>>
    /\ vsimem = <<>>
    /\ lyr = 1

\* ds = gdal.OpenEx(...), the caller having installed a fresh error handler
Open(o) ==
    \E r \in { OpenEx(doc, o, server, cache) } :
    /\ opts' = o
    /\ ds' = r.ds
    /\ layers' = r.layers
    /\ sink' = r.sink
    /\ cache' = r.env.cache
    /\ net' = r.env.net
    /\ unlinked' = {}
    /\ reader' = "start"
    /\ f' = None
    /\ out' = <<>>
    /\ seen' = IF seen = <<>> /\ r.ds = "open" /\ EffectiveConfiguration(o).Validate
               THEN << [opts |-> o, error_list |-> r.sink] >>
               ELSE seen
    /\ populated' = IF r.ds = "open" /\ r.env.cache # cache
                    THEN << [entry |-> EntryRef(doc, o), layers |-> r.layers,
                             untouched |-> TRUE] >>
                    ELSE populated
    /\ lyr' = 1
    /\ UNCHANGED << doc, server, plain, vsimem >>

\* lyr = ds.GetLayerByName(n), before anything is read
GetLayerByName(n) ==
    /\ ds = "open" /\ reader = "start" /\ lyr = 1
    /\ \E i \in 2..Len(layers) : layers[i].name = n /\ lyr' = i
    /\ UNCHANGED << doc, server, cache, unlinked, opts, ds, layers, net, sink, reader, f, out,
                   seen, plain, populated, vsimem >>

\* f = lyr.GetNextFeature(), on layer 0 unless the test fetched another
GetNextFeature ==
    /\ ds = "open"
    /\ IF HasMembers(doc)
       THEN IF Len(out) < Len(doc.members)
            THEN \E r \in { ReadMember(EffectiveConfiguration(opts), layers[1], doc,
                                        Len(out) + 1) } :
                 /\ reader' = "emitted"
                 /\ f' = << r.feature >>
                 /\ out' = Append(out, r.feature)
                 /\ sink' = sink \o r.diags
            ELSE /\ reader' = "eos"
                 /\ f' = None
                 /\ UNCHANGED << sink, out >>
       ELSE IF IsTree(doc) \/ lyr > 1
       THEN \E rows \in { IF IsTree(doc)
                            THEN LayerRows(EffectiveConfiguration(opts), layers[lyr], doc,
                                           InstantiatedElements(
                                               SchemaElements(EntryRef(doc, opts))))
                            ELSE ReadOccurrences(layers[1], layers[lyr], doc, 1) } :
            IF Len(out) < Len(rows)
            THEN /\ reader' = "emitted"
                 /\ f' = << rows[Len(out) + 1] >>
                 /\ out' = Append(out, rows[Len(out) + 1])
                 /\ sink' = sink
            ELSE /\ reader' = "eos"
                 /\ f' = None
                 /\ out' = out
                 /\ sink' = IF IsTree(doc) /\ reader # "eos"
                            THEN sink \o LinkDiagnostics(EffectiveConfiguration(opts),
                                             layers[lyr], doc,
                                             InstantiatedElements(
                                                 SchemaElements(EntryRef(doc, opts))))
                            ELSE sink
       ELSE IF reader = "start" /\ doc.present /\ ~ doc.closed
       THEN /\ reader' = "failed"
            /\ f' = None
            /\ sink' = Append(sink, Diagnostic("MalformedDocument", "main_elt"))
            /\ out' = out
       ELSE IF reader = "start" /\ doc.present
       THEN \E r \in { ReadRoot(layers[1], doc, Len(out) + 1) } :
            /\ reader' = "emitted"
            /\ f' = << r.feature >>
            /\ sink' = sink \o r.diags
            /\ out' = Append(out, r.feature)
       ELSE /\ reader' = IF reader = "failed" THEN "failed" ELSE "eos"
            /\ f' = None
            /\ UNCHANGED << sink, out >>
    /\ plain' = IF /\ plain = <<>>
                   /\ reader' \in { "eos", "failed" }
                   /\ opts = DefaultOptions
                THEN << [opts |-> opts, layers |-> layers, out |-> out', lyr |-> lyr] >>
                ELSE plain
    /\ UNCHANGED << doc, server, cache, unlinked, opts, ds, layers, net, seen, populated,
                   vsimem, lyr >>

\* webserver.server_stop(...)
server_stop ==
    /\ server = "up"
    /\ server' = "down"
    /\ UNCHANGED << doc, cache, unlinked, opts, ds, layers, net, sink, reader, f, out,
                   seen, plain, populated, vsimem, lyr >>

\* webserver.launch(...)
launch ==
    /\ server = "down"
    /\ server' = "up"
    /\ UNCHANGED << doc, cache, unlinked, opts, ds, layers, net, sink, reader, f, out,
                   seen, plain, populated, vsimem, lyr >>

\* gdal.Unlink('/vsimem/my/gmlas_cache/' + gdal.ReadDir('/vsimem/my/gmlas_cache')[0])
Unlink(u) ==
    /\ u \in cache
    /\ cache' = cache \ { u }
    /\ unlinked' = unlinked \cup { u }
    /\ populated' = IF populated = <<>> THEN populated
                    ELSE << [populated[1] EXCEPT !.untouched = FALSE] >>
    /\ UNCHANGED << doc, server, opts, ds, layers, net, sink, reader, f, out, seen, plain,
                   vsimem, lyr >>

Next ==
    \/ \E o \in OptionsFor(doc) : Open(o)
    \/ GetNextFeature
    \/ server_stop
    \/ launch
    \/ \E u \in cache : Unlink(u)

Spec == Init /\ [][Next]_vars

\* ogr_gmlas_conf_ignored_xpath on its own: the documents of gmlas_test1.xsd
\* and the schema-only opens, under the IgnoredXPaths rule sets.
InitRules ==
    /\ doc \in RuleDocs \cup { NoDocument }
    /\ server = "up"
    /\ cache = {}
    /\ unlinked = {}
    /\ opts = DefaultOptions
    /\ ds = "unopened"
    /\ layers = <<>>
    /\ net = <<>>
    /\ sink = <<>>
    /\ reader = "start"
    /\ f = None
    /\ out = <<>>
    /\ seen = <<>>
    /\ plain = <<>>
    /\ populated = <<>>
    /\ vsimem = <<>>
    /\ lyr = 1

\* Each open of that test is made on its own, then layer 0 is read.
NextRules ==
    \/ ds = "unopened" /\ \E o \in RuleOptions(doc) : Open(o)
    \/ GetNextFeature

SpecRules == InitRules /\ [][NextRules]_vars

(***************************************************************************)
(* The builder and the mapper on schemas with several top-level elements:  *)
(* the three tests that write such schemas, and generated schemas and      *)
(* documents of the same shapes.                                           *)
(***************************************************************************)
SeqsUpTo(S, n) == UNION { [1..k -> S] : k \in 0..n }

\* A slot for other_ns:abstractElt: none, one occurrence, or repeated.
Slots == { "none", "single", "repeated" }

SlotOf(slot) ==
    IF slot = "none" THEN <<>> ELSE << Ref("other_ns", "abstractElt", slot = "repeated") >>

\* A top-level element beside the root: absent, a realization of
\* other_ns:abstractElt, or an element outside the substitution group.
Declared(how, ns, n, content) ==
    IF how = "absent" THEN <<>>
    ELSE << Element(ns, n, FALSE, IF how = "realization" THEN AbstractElt ELSE <<>>,
                    content) >>

\* The two schema files of ogr_gmlas_same_element_in_different_ns with:
\* the slot directly in myns:elt, the slot in its child elt2, and how
\* realizationOfAbstractElt and otherElt are declared in each namespace.
SubstitutionFiles(direct, inner, mr, mo, tr, to) ==
    (PATH_same_element :>
        SchemaOf(<< PATH_same_element_other_ns >>,
                 << Element("myns", "elt", FALSE, <<>>,
                            SlotOf(direct)
                              \o (IF inner = "none" THEN <<>>
                                  ELSE << Nested("elt2", FALSE, SlotOf(inner)) >>)) >>
                   \o Declared(mr, "myns", "realizationOfAbstractElt", << Simple("bar") >>)
                   \o Declared(mo, "myns", "otherElt", << Simple("bar") >>)))
    @@
    (PATH_same_element_other_ns :>
        SchemaOf(<<>>,
                 << Element("other_ns", "abstractElt", TRUE, <<>>, <<>>) >>
                   \o Declared(tr, "other_ns", "realizationOfAbstractElt", << Simple("foo") >>)
                   \o Declared(to, "other_ns", "otherElt", << Simple("foo") >>)))

SubstitutionSchemas ==
    { SubstitutionFiles(direct, inner, mr, mo, tr, to) :
        direct \in Slots, inner \in Slots,
        mr \in { "absent", "realization" }, mo \in { "absent", "realization" },
        tr \in { "absent", "realization" }, to \in { "absent", "plain" } }

\* The files the test itself writes.
FILES_same_element_in_different_ns ==
    (PATH_same_element :> XSD_same_element_in_different_ns)
      @@ (PATH_same_element_other_ns :> XSD_same_element_in_different_ns_other_ns)

\* An occurrence of a realization, as the documents write it.
RealizationNode(e) ==
    Node(e.ns, e.name, "", "", << Node(e.ns, e.content[1].name, "", "bar", <<>>) >>)

\* The documents of a schema of that family: realizations where the schema
\* has a slot, as many as the slot takes, MaxParts at most in all.
SubstitutionDocs(files) ==
    LET decls  == files[PATH_same_element].decls \o files[PATH_same_element_other_ns].decls
        elt    == decls[1]
        R      == Realizations(decls, Lookup(decls, "other_ns", "abstractElt"))
        nodes  == { RealizationNode(R[r]) : r \in 1..Len(R) }
        Room(content) ==
            IF \E i \in 1..Len(content) : content[i].kind = "ref"
            THEN (IF content[CHOOSE i \in 1..Len(content) : content[i].kind = "ref"].repeated
                  THEN MaxParts ELSE 1)
            ELSE 0
        hasElt2 == \E i \in 1..Len(elt.content) : elt.content[i].kind = "nested"
        elt2    == elt.content[CHOOSE i \in 1..Len(elt.content) :
                                   elt.content[i].kind = "nested"]
    IN { TreeDocument(PATH_same_element,
             Node("myns", "elt", "", "",
                  direct \o (IF hasElt2 THEN << Node("myns", "elt2", "", "", inner) >>
                             ELSE <<>>))) :
           direct \in SeqsUpTo(nodes, Room(elt.content)),
           inner  \in IF hasElt2 THEN SeqsUpTo(nodes, Room(elt2.content)) ELSE { <<>> } }

SubstitutionCases ==
    UNION { { [doc |-> d, files |-> files] :
                d \in { x \in SubstitutionDocs(files) :
                          Len(x.root.kids) + (IF \E i \in 1..Len(x.root.kids) :
                                                   x.root.kids[i].name = "elt2"
                                              THEN Len(x.root.kids[Len(x.root.kids)].kids) - 1
                                              ELSE 0) <= MaxParts } } :
            files \in SubstitutionSchemas }

\* Documents of ogr_gmlas_composition_compositionPart: wrappers, each with a
\* CompositionPart of its own identifier.
PartIds == { "id1", "id2", "id3" }

CompositionDocs ==
    { TreeDocument(PATH_composition,
          Node("", "first", "", "",
               [i \in 1..Len(ids) |-> CompositionOf(ids[i], "a1")])) :
        ids \in { q \in SeqsUpTo(PartIds, MaxParts) :
                    \A i, j \in 1..Len(q) : q[i] = q[j] => i = j } }

CompositionCases ==
    { [doc |-> d, files |-> (PATH_composition :> XSD_composition_compositionPart)] :
        d \in CompositionDocs \cup { DOC_composition_compositionPart } }

BuilderCases ==
    SubstitutionCases \cup CompositionCases
      \cup { [doc |-> DOC_same_element_in_different_ns,
              files |-> FILES_same_element_in_different_ns],
             [doc |-> DOC_link_nested_independant_child,
              files |-> (PATH_link_nested :> XSD_link_nested_independant_child)] }

InitBuilder ==
    /\ \E c \in BuilderCases : doc = c.doc /\ vsimem = c.files
    /\ server = "up"
    /\ cache = {}
    /\ unlinked = {}
    /\ opts = DefaultOptions
    /\ ds = "unopened"
    /\ layers = <<>>
    /\ net = <<>>
    /\ sink = <<>>
    /\ reader = "start"
    /\ f = None
    /\ out = <<>>
    /\ seen = <<>>
    /\ plain = <<>>
    /\ populated = <<>>
    /\ lyr = 1

\* Each of these tests opens its document once with no option, fetches a
\* layer and reads it.
NextBuilder ==
    \/ ds = "unopened" /\ Open(DefaultOptions)
    \/ \E n \in TableNames(layers) : GetLayerByName(n)
    \/ GetNextFeature

SpecBuilder == InitBuilder /\ [][NextBuilder]_vars

(***************************************************************************)
(* UseArrays: the documents of data/gmlas_test1.xsd, and a generated       *)
(* schema with an array in the root element and one in a repeated nested   *)
(* element, each opened with UseArrays not given, true and false.          *)
(***************************************************************************)
PATH_arrays == "/vsimem/arrays.xsd"

XSD_arrays ==
    SchemaOf(<<>>,
        << Element("", "main", FALSE, <<>>,
                   << Simple("string"), SimpleArray("tags"),
                      Nested("item", TRUE, << Simple("a"), SimpleArray("values") >>) >>) >>)

ItemNodes ==
    { Node("", "item", "", "", [i \in 1..Len(vs) |-> Node("", "values", "", vs[i], <<>>)]) :
        vs \in { <<>>, << "v1" >>, << "v1", "v2" >>, << "v2", "v1" >> } }

ArrayKids ==
    { Node("", "tags", "", "t1", <<>>), Node("", "tags", "", "t2", <<>>) } \cup ItemNodes

ArrayDocs ==
    { TreeDocument(PATH_arrays, Node("", "main", "", "", kids)) :
        kids \in SeqsUpTo(ArrayKids, MaxContent) }

OPTS_use_arrays_false == OpenOptions("", "", "", "", CONF_use_arrays_false)

ArrayOptions ==
    { OpenOptions("", "", "", "", conf) :
        conf \in { ConfigAbsent, CONF_use_arrays_false,
                   ConfigInline([EmptyConfiguration EXCEPT !.UseArrays = "true"]) } }

ArrayCases ==
    { [doc |-> d, files |-> (PATH_arrays :> XSD_arrays)] : d \in ArrayDocs }
    \cup { [doc |-> d, files |-> <<>>] : d \in RuleDocs \cup { DOC_gmlas_test1_string_array } }

InitArrays ==
    /\ \E c \in ArrayCases : doc = c.doc /\ vsimem = c.files
    /\ server = "up"
    /\ cache = {}
    /\ unlinked = {}
    /\ opts = DefaultOptions
    /\ ds = "unopened"
    /\ layers = <<>>
    /\ net = <<>>
    /\ sink = <<>>
    /\ reader = "start"
    /\ f = None
    /\ out = <<>>
    /\ seen = <<>>
    /\ plain = <<>>
    /\ populated = <<>>
    /\ lyr = 1

\* The document is opened once, a layer is fetched or not, and it is read.
NextArrays ==
    \/ ds = "unopened" /\ \E o \in ArrayOptions : Open(o)
    \/ \E n \in TableNames(layers) : GetLayerByName(n)
    \/ GetNextFeature

SpecArrays == InitArrays /\ [][NextArrays]_vars

(***************************************************************************)
(* Keys: the documents of ogr_gmlas_composition_compositionPart and of the *)
(* generated schema with arrays, opened and read again and again.          *)
(***************************************************************************)
KeyCases ==
    CompositionCases
      \cup { [doc |-> d, files |-> (PATH_arrays :> XSD_arrays)] : d \in ArrayDocs }
      \cup { [doc |-> DOC_link_nested_independant_child,
              files |-> (PATH_link_nested :> XSD_link_nested_independant_child)] }

KeyOptions(d) ==
    { DefaultOptions } \cup (IF d \in ArrayDocs THEN { OPTS_use_arrays_false } ELSE {})

InitKeys ==
    /\ \E c \in KeyCases : doc = c.doc /\ vsimem = c.files
    /\ server = "up"
    /\ cache = {}
    /\ unlinked = {}
    /\ opts = DefaultOptions
    /\ ds = "unopened"
    /\ layers = <<>>
    /\ net = <<>>
    /\ sink = <<>>
    /\ reader = "start"
    /\ f = None
    /\ out = <<>>
    /\ seen = <<>>
    /\ plain = <<>>
    /\ populated = <<>>
    /\ lyr = 1

\* The document is opened, a layer is fetched or not and read; at any time
\* the document is opened again.
NextKeys ==
    \/ \E o \in KeyOptions(doc) : Open(o)
    \/ \E n \in TableNames(layers) : GetLayerByName(n)
    \/ GetNextFeature

SpecKeys == InitKeys /\ [][NextKeys]_vars

(***************************************************************************)
(* Links: the document of ogr_gmlas_gml_Reference, and the documents of a  *)
(* generated schema whose elements bear an identifier and refer to one     *)
(* another, before or after the element referred to, or to no element.     *)
(***************************************************************************)
PATH_links == "/vsimem/links.xsd"

XSD_links ==
    SchemaOf(<<>>,
        << Element("", "list", FALSE, <<>>, << Ref("", "target_elt", TRUE) >>),
           Element("", "target_elt", FALSE, <<>>,
                   << IdAttr("id"), Link("reference", "target_elt") >>) >>)

LinkIds == { "BAZ", "BAW", "BAR" }

\* A target_elt of identifier id that refers to ref, or to nothing ("").
LinkNode(id, ref) ==
    Node("", "target_elt", id, "",
         IF ref = "" THEN <<>> ELSE << Node("", "reference", "", ref, <<>>) >>)

LinkDocs ==
    { TreeDocument(PATH_links,
          Node("", "list", "", "",
               [i \in 1..Len(ids) |-> LinkNode(ids[i], refs[i])])) :
        ids  \in { q \in SeqsUpTo(LinkIds, MaxParts) :
                     \A i, j \in 1..Len(q) : q[i] = q[j] => i = j },
        refs \in [1..MaxParts -> { "", "BAZ", "BAW", "missing" }] }

LinkCases ==
    { [doc |-> d, files |-> (PATH_links :> XSD_links)] : d \in LinkDocs }
      \cup { [doc |-> DOC_gmlas_test_targetelement, files |-> <<>>] }

InitLinks ==
    /\ \E c \in LinkCases : doc = c.doc /\ vsimem = c.files
    /\ server = "up"
    /\ cache = {}
    /\ unlinked = {}
    /\ opts = DefaultOptions
    /\ ds = "unopened"
    /\ layers = <<>>
    /\ net = <<>>
    /\ sink = <<>>
    /\ reader = "start"
    /\ f = None
    /\ out = <<>>
    /\ seen = <<>>
    /\ plain = <<>>
    /\ populated = <<>>
    /\ lyr = 1

\* The document is opened once with no option, a layer is fetched or not,
\* and it is read.
NextLinks ==
    \/ ds = "unopened" /\ Open(DefaultOptions)
    \/ \E n \in TableNames(layers) : GetLayerByName(n)
    \/ GetNextFeature

SpecLinks == InitLinks /\ [][NextLinks]_vars

(***************************************************************************)
(* Top-level tables: the schema of ogr_gmlas_instantiate_only_gml_feature  *)
(* and generated schemas, with and without the abstract-feature root: an   *)
(* abstract element mid and the elements a, b and c, each in a             *)
(* substitution group or in none, a referring to c or not.                 *)
(***************************************************************************)
PATH_features == "/vsimem/features.xsd"

FeatureFiles(withRoot, midS, aS, bS, cS, aC) ==
    (PATH_features :>
        SchemaOf(IF withRoot THEN << PATH_fake_gml32 >> ELSE <<>>,
            << Element("", "mid", TRUE, midS, <<>>),
               Element("", "a", FALSE, aS, aC),
               Element("", "b", FALSE, bS, << Simple("x") >>),
               Element("", "c", FALSE, cS, << Simple("y") >>) >>))
    @@ (PATH_fake_gml32 :> XSD_fake_gml32)

FeatureSchemas ==
    { FeatureFiles(withRoot, midS, aS, bS, cS, aC) :
        withRoot \in BOOLEAN,
        midS \in { <<>>, AbstractFeature },
        aS \in { <<>>, AbstractFeature, << "", "mid" >> },
        bS \in { <<>>, AbstractFeature, << "", "mid" >>, << "", "a" >> },
        cS \in { <<>>, AbstractFeature, << "", "b" >> },
        aC \in { << Simple("x") >>, << Ref("", "c", FALSE) >>, << Ref("", "c", TRUE) >> } }

FILES_instantiate_only_gml_feature ==
    (PATH_instantiate_only_gml_feature :> XSD_instantiate_only_gml_feature)
    @@ (PATH_fake_gml32 :> XSD_fake_gml32)

\* The names of the elements a substitution group leads from to an
\* abstract-feature root, the roots included: S closed under n more steps.
RECURSIVE FeatureElements(_, _, _)
FeatureElements(decls, S, n) ==
    IF n = 0 THEN S
    ELSE FeatureElements(decls,
             S \cup { << decls[i].ns, decls[i].name >> :
                        i \in { k \in 1..Len(decls) : decls[k].substitutionGroup \in S } },
             n - 1)

FeaturesOf(files, entry) ==
    LET decls == files[entry].decls
                   \o (IF files[entry].includes = <<>> THEN <<>> ELSE XSD_fake_gml32.decls)
    IN IF files[entry].includes = <<>>
       THEN { << decls[i].ns, decls[i].name >> : i \in 1..Len(decls) }
       ELSE FeatureElements(decls, FeatureRoots, Len(decls))

\* A document of a generated schema whose root element a is a table.
DOC_features ==
    TreeDocument(PATH_features,
        Node("", "a", "", "",
             << Node("", "x", "", "x1", <<>>),
                Node("", "c", "", "", << Node("", "y", "", "y1", <<>>) >>) >>))

DOC_instantiate_only_gml_feature ==
    TreeDocument(PATH_instantiate_only_gml_feature,
        Node("", "someFeature", "", "",
             << Node("", "nonFeature", "", "", << Node("", "a", "", "a1", <<>>) >>) >>))

FeatureCases ==
    { [doc |-> NoDocument, files |-> files] :
        files \in FeatureSchemas \cup { FILES_instantiate_only_gml_feature } }
    \cup { [doc |-> DOC_features, files |-> files] :
             files \in { x \in FeatureSchemas :
                           << "", "a" >> \in FeaturesOf(x, PATH_features) } }
    \cup { [doc |-> DOC_instantiate_only_gml_feature,
             files |-> FILES_instantiate_only_gml_feature] }

InitFeatures ==
    /\ \E c \in FeatureCases : doc = c.doc /\ vsimem = c.files
    /\ server = "up"
    /\ cache = {}
    /\ unlinked = {}
    /\ opts = DefaultOptions
    /\ ds = "unopened"
    /\ layers = <<>>
    /\ net = <<>>
    /\ sink = <<>>
    /\ reader = "start"
    /\ f = None
    /\ out = <<>>
    /\ seen = <<>>
    /\ plain = <<>>
    /\ populated = <<>>
    /\ lyr = 1

\* The schema is opened by XSD= as in the test, or by the document that
\* names it, and layer 0 is read.
NextFeatures ==
    \/ /\ ds = "unopened"
       /\ IF doc.present THEN Open(DefaultOptions)
          ELSE \E xsd \in DOMAIN vsimem \ { PATH_fake_gml32 } :
                  Open(OpenOptions(xsd, "", "", "", ConfigAbsent))
    \/ GetNextFeature

SpecFeatures == InitFeatures /\ [][NextFeatures]_vars

(***************************************************************************)
(* Schema graphs: three schema files that include one another, themselves  *)
(* or the same file twice, whose elements refer to one another or to       *)
(* themselves, with and without the abstract-feature root; and the schema  *)
(* of ogr_gmlas_instantiate_only_gml_feature.                              *)
(***************************************************************************)
PATH_graph_a == "/vsimem/graph_a.xsd"
PATH_graph_b == "/vsimem/graph_b.xsd"
PATH_graph_c == "/vsimem/graph_c.xsd"

GraphFiles(gml, ia, ib, ic, ca, cb, cc) ==
    (PATH_graph_a :>
        SchemaOf((IF gml THEN << PATH_fake_gml32 >> ELSE <<>>) \o ia,
                 << Element("", "a", FALSE, IF gml THEN AbstractFeature ELSE <<>>, ca) >>))
    @@ (PATH_graph_b :> SchemaOf(ib, << Element("", "b", FALSE, <<>>, cb) >>))
    @@ (PATH_graph_c :> SchemaOf(ic, << Element("", "c", FALSE, <<>>, cc) >>))
    @@ (PATH_fake_gml32 :> XSD_fake_gml32)

\* The files reachable from those of S through n more include steps.
RECURSIVE Reach(_, _, _)
Reach(files, S, n) ==
    IF n = 0 THEN S
    ELSE Reach(files,
               S \cup UNION { { files[p].includes[i] : i \in 1..Len(files[p].includes) } :
                                p \in S },
               n - 1)

Reachable(files, entry) == Reach(files, { entry }, Cardinality(DOMAIN files))

\* Every element referred to from a reachable file is declared in one.
Closed(files, entry) ==
    LET R == Reachable(files, entry)
        declared == UNION { { files[p].decls[i].name : i \in 1..Len(files[p].decls) } :
                              p \in R }
    IN \A p \in R : \A i \in 1..Len(files[p].decls) :
          \A k \in 1..Len(files[p].decls[i].content) :
             files[p].decls[i].content[k].kind = "ref" =>
                files[p].decls[i].content[k].name \in declared

GraphSchemas ==
    { g \in { GraphFiles(gml, ia, ib, ic, ca, cb, cc) :
                gml \in BOOLEAN,
                ia \in { <<>>, << PATH_graph_a >>, << PATH_graph_b >>,
                         << PATH_graph_b, PATH_graph_b >>,
                         << PATH_graph_b, PATH_graph_c >> },
                ib \in { <<>>, << PATH_graph_a >>, << PATH_graph_b >>, << PATH_graph_c >>,
                         << PATH_graph_c, PATH_graph_a >> },
                ic \in { <<>>, << PATH_graph_a >>, << PATH_graph_b >>,
                         << PATH_graph_c, PATH_graph_b >> },
                ca \in { << Simple("x") >>, << Ref("", "b", FALSE) >>,
                         << Ref("", "b", TRUE) >>, << Ref("", "a", FALSE) >> },
                cb \in { << Simple("y") >>, << Ref("", "c", FALSE) >>,
                         << Ref("", "b", FALSE) >>, << Ref("", "a", FALSE) >> },
                cc \in { << Simple("z") >>, << Ref("", "b", FALSE) >>,
                         << Ref("", "c", FALSE) >> } } :
        Closed(g, PATH_graph_a) }

GraphCases == GraphSchemas \cup { FILES_instantiate_only_gml_feature }

InitGraph ==
    /\ doc = NoDocument
    /\ vsimem \in GraphCases
    /\ server = "up"
    /\ cache = {}
    /\ unlinked = {}
    /\ opts = DefaultOptions
    /\ ds = "unopened"
    /\ layers = <<>>
    /\ net = <<>>
    /\ sink = <<>>
    /\ reader = "start"
    /\ f = None
    /\ out = <<>>
    /\ seen = <<>>
    /\ plain = <<>>
    /\ populated = <<>>
    /\ lyr = 1

\* The entry schema is opened by XSD= as in the test, and layer 0 is read.
NextGraph ==
    \/ /\ ds = "unopened"
       /\ \E xsd \in { PATH_graph_a, PATH_instantiate_only_gml_feature } \cap DOMAIN vsimem :
             Open(OpenOptions(xsd, "", "", "", ConfigAbsent))
    \/ GetNextFeature

SpecGraph == InitGraph /\ [][NextGraph]_vars

(***************************************************************************)
(* Geometries: the document of ogr_gmlas_geometryproperty and generated    *)
(* documents of up to MaxMembers features, each with no geometry or with   *)
(* one of every srsName and position, read with SWAP_COORDINATES not       *)
(* given, YES and NO.                                                      *)
(***************************************************************************)
SrsNames == { URN_4326, "EPSG:4326", "EPSG:32631" }

PositionLists ==
    { << << 5, 0 >> >>, << << 5, 3 >> >>, << << 49, 2 >> >>,
      << << 2, 49 >>, << 3, 50 >> >> }

GeneratedMembers ==
    { <<>> } \cup { << Geometry("geometryProperty", srs, pos) >> :
                      srs \in SrsNames, pos \in PositionLists }

GeometryDocs ==
    { FeatureDocument(PATH_geometryproperty, ms) : ms \in SeqsUpTo(GeneratedMembers, MaxMembers) }
    \cup { DOC_geometryproperty_gml32 }

SwapOptions(v) == [DefaultOptions EXCEPT !.SWAP_COORDINATES = v]

InitGeometry ==
    /\ doc \in GeometryDocs
    /\ server = "up"
    /\ cache = {}
    /\ unlinked = {}
    /\ opts = DefaultOptions
    /\ ds = "unopened"
    /\ layers = <<>>
    /\ net = <<>>
    /\ sink = <<>>
    /\ reader = "start"
    /\ f = None
    /\ out = <<>>
    /\ seen = <<>>
    /\ plain = <<>>
    /\ populated = <<>>
    /\ vsimem = <<>>
    /\ lyr = 1

NextGeometry ==
    \/ ds = "unopened" /\ \E v \in { "", "YES", "NO" } : Open(SwapOptions(v))
    \/ GetNextFeature

SpecGeometry == InitGeometry /\ [][NextGeometry]_vars

(***************************************************************************)
(* The Configuration Merger on every combination of the settings that have *)
(* an open option and an element of the configuration document.            *)
(***************************************************************************)
OptionValues == { "", "YES", "NO" }

SettingValues == { "", "true", "false" }

MergerConf(val, failIf, expose) ==
    IF val = "" /\ failIf = "" /\ expose = "" THEN ConfigAbsent
    ELSE ConfigInline([Configuration("", "", val, failIf, <<>>, <<>>)
                          EXCEPT !.ExposeMetadataLayers = expose])

MergerOptions ==
    { [OpenOptions("", v, fi, "", MergerConf(cv, cf, ce))
          EXCEPT !.EXPOSE_METADATA_LAYERS = e] :
        v \in OptionValues, fi \in OptionValues, e \in OptionValues,
        cv \in SettingValues, cf \in SettingValues, ce \in SettingValues }

OPTS_expose == OpenOptions("", "", "", "", CONF_expose_metadata)

OPTS_expose_override == [OPTS_expose EXCEPT !.EXPOSE_METADATA_LAYERS = "NO"]

MergerDocs ==
    { DOC_abstractgeometry_gml32, DOC_validate, DOC_conf_invalid,
      DOC_unexpected_repeated_element }

InitConf ==
    /\ doc \in MergerDocs
    /\ server = "up"
    /\ cache = {}
    /\ unlinked = {}
    /\ opts = DefaultOptions
    /\ ds = "unopened"
    /\ layers = <<>>
    /\ net = <<>>
    /\ sink = <<>>
    /\ reader = "start"
    /\ f = None
    /\ out = <<>>
    /\ seen = <<>>
    /\ plain = <<>>
    /\ populated = <<>>
    /\ vsimem = <<>>
    /\ lyr = 1

\* Each open of ogr_gmlas_conf is made on its own.
NextConf ==
    \/ ds = "unopened" /\ \E o \in MergerOptions : Open(o)
    \/ GetNextFeature

SpecConf == InitConf /\ [][NextConf]_vars

(***************************************************************************)
(* What the tests assert on the values the driver returned.                *)
(***************************************************************************)
\* ogr_gmlas_unexpected_repeated_element(_variant): the checks made on the
\* first Feature and on gdal.GetLastErrorMsg() (the driver words the
\* duplicate as 'Unexpected element myns:main_elt/myns:foo')
repeated_element_checks_mutant(feat, msg) ==
    /\ feat # None
    /\ feat[1].fields["foo"] = "foo_first"
    /\ msg = Diagnostic("DuplicateNonArrayField", "main_elt/foo")

repeated_element_checks(feat, msg) ==
    /\ feat # None
    /\ feat[1].fields["foo"] = "foo_again"
    /\ msg = Diagnostic("DuplicateNonArrayField", "main_elt/foo")

\* ogr_gmlas_validate, 'Validation errors, but do not prevent dataset opening'
validate_checks_mutant(dsv, error_list) == dsv # "none" /\ Len(error_list) = 3

validate_checks(dsv, error_list) == dsv # "none" /\ Len(error_list) = 2

\* ogr_gmlas_validate, 'Validation errors and do prevent dataset opening'
validate_fail_checks_mutant(dsv, error_list) == dsv = "none" /\ Len(error_list) = 2

validate_fail_checks(dsv, error_list) == dsv = "none" /\ Len(error_list) = 3

\* ogr_gmlas_conf, 'Turn on validation and error on validation'
conf_validation_checks(dsv, msg) == dsv = "none" /\ msg.class = "ValidationFailed"

\* ogr_gmlas_validate, 'By default check we are silent about validation error'
validate_default_checks_mutant(dsv, msg) == dsv # "none" /\ msg # NoError

validate_default_checks(dsv, msg) == dsv # "none" /\ msg = NoError

\* ogr_gmlas_validate, 'Test that validation without doc doesn't crash'
validate_without_doc_checks(dsv, error_list) == dsv # "none" /\ Len(error_list) = 0

\* ogr_gmlas_cache, 'First try with remote schema download disabled'
cache_download_disabled_checks_mutant(dsv, msg) == dsv # "none"

cache_download_disabled_checks(dsv, msg) ==
    dsv = "none" /\ msg.class = "SchemaNotFound"

\* ogr_gmlas_cache, 'Will create the directory and download and and cache'
cache_populate_checks(dsv, layer_count) == dsv # "none" /\ layer_count = 1

\* ogr_gmlas_cache, 'Will reuse the directory and download and cache'
cache_unlink_reopen_checks(dsv, layer_count) == dsv # "none" /\ layer_count = 1

\* ogr_gmlas_cache, 'Now re-open with the webserver turned off'
cache_server_off_checks_mutant(dsv, layer_count) == dsv = "none"

cache_server_off_checks(dsv, layer_count) == dsv # "none" /\ layer_count = 1

\* ogr_gmlas_cache, 'Re try but ask for refresh'
cache_refresh_checks_mutant(dsv, msg) == dsv # "none"

cache_refresh_checks(dsv, msg) == dsv = "none" /\ msg.class = "SchemaNotFound"

\* ogr_gmlas_cache, 'Re try with non existing cached schema'
cache_unlinked_server_off_checks_mutant(dsv, msg) == dsv # "none"

cache_unlinked_server_off_checks(dsv, msg) ==
    dsv = "none" /\ msg.class = "SchemaNotFound"

\* ogr_gmlas_no_datafile_with_xsd_option
no_datafile_with_xsd_checks(dsv) == dsv # "none"

\* ogr_gmlas_no_datafile_xsd_which_is_not_xsd ("invalid content in 'schema' element")
xsd_which_is_not_xsd_checks(dsv, msg) == dsv = "none" /\ msg.class = "SchemaInvalid"

\* ogr_gmlas_no_datafile_no_xsd ('XSD open option must be provided when no XML
\* data file is passed': the text names no file, URL or pattern)
no_datafile_no_xsd_checks_mutant(dsv, msg) == dsv # "none"

no_datafile_no_xsd_checks(dsv, msg) ==
    dsv = "none" /\ msg = Diagnostic("ConfigurationInvalid", Null)

\* ogr_gmlas_non_existing_xsd ('Cannot resolve /vsimem/i_dont_exist.xsd')
non_existing_xsd_checks_mutant(dsv, msg) ==
    dsv = "none" /\ msg = Diagnostic("SchemaNotFound", Null)

non_existing_xsd_checks(dsv, msg) ==
    dsv = "none" /\ msg = Diagnostic("SchemaNotFound", PATH_i_dont_exist)

\* ogr_gmlas_gml_without_schema_location ('No schema locations found when
\* analyzing data file: XSD open option must be provided')
gml_without_schema_location_checks(dsv, msg) ==
    dsv = "none" /\ msg.class = "NoSchemaLocation"

\* ogr_gmlas_conf, 'Non existing file' and 'Broken conf file'
conf_not_loadable_checks(dsv) == dsv = "none"

\* ogr_gmlas_conf_ignored_xpath, 'Test duplicating mapping' ('Prefix ns was
\* already mapped')
duplicate_prefix_checks_mutant(msg) == msg.class = "XPathSyntaxError"

duplicate_prefix_checks(msg) == msg = Diagnostic("PrefixAlreadyMapped", "ns")

\* ogr_gmlas_invalid_xml ('input ended before all started tags were ended')
invalid_xml_checks_mutant(dsv, feat, msg) == dsv # "none" /\ feat # None

invalid_xml_checks(dsv, feat, msg) ==
    dsv # "none" /\ feat = None /\ msg.class = "MalformedDocument"

\* ogr_gmlas_conf_ignored_xpath, 'Test XPath with implicit namespace, and warning'
ignored_xpath_warn_checks_mutant(dsv, fields, msg) ==
    dsv # "none" /\ "otherns_id" \notin fields /\ msg = NoError

ignored_xpath_warn_checks(dsv, fields, msg) ==
    /\ dsv # "none"
    /\ "otherns_id" \notin fields
    /\ msg = Diagnostic("IgnoredXPathMatchedInInstance", "myns:main_elt/@otherns:id")

\* ogr_gmlas_conf_ignored_xpath, 'Test XPath with explicit namespace, and
\* warning suppression'
ignored_xpath_no_warn_checks(dsv, msg) == dsv # "none" /\ msg = NoError

\* ogr_gmlas_conf, 'ExposeMetadataLayers = true'
conf_expose_checks(dsv, count) == dsv # "none" /\ count = 4

\* ogr_gmlas_conf, 'Test override with open option'
conf_expose_override_checks_mutant(dsv, count) == dsv # "none" /\ count = 4

conf_expose_override_checks(dsv, count) == dsv # "none" /\ count = 1

\* ogr_gmlas_conf, 'Inlined conf file + UseArrays = false'
use_arrays_false_checks_mutant(dsv, names, count) ==
    dsv # "none" /\ "main_elt_string_array" \in names /\ count = 1

use_arrays_false_checks(dsv, names, count) ==
    dsv # "none" /\ "main_elt_string_array" \in names /\ count = 2

\* ogr_gmlas_instantiate_only_gml_feature
instantiate_only_gml_feature_checks_mutant(count) == count = 2

instantiate_only_gml_feature_checks(count) == count = 1

\* ogr_gmlas_geometryproperty, the first feature with the default options
\* ('POINT (2 49)', None, 'POINT (3 50)', 'LINESTRING (2 49)')
geometryproperty_checks(feat) ==
    /\ feat.fields["geometryProperty"] = << << 2, 49 >> >>
    /\ feat.fields["geometryPropertyEmpty"] = None
    /\ feat.fields["pointProperty"] = << << 3, 50 >> >>
    /\ feat.fields["lineStringProperty"] = << << 2, 49 >> >>

\* ogr_gmlas_geometryproperty, 'Test SWAP_COORDINATES=NO'
swap_coordinates_no_checks(feat) ==
    /\ feat.fields["geometryProperty"] = << << 49, 2 >> >>
    /\ feat.fields["lineStringProperty"] = << << 2, 49 >> >>

\* ogr_gmlas_geometryproperty, 'Test SWAP_COORDINATES=YES'
swap_coordinates_yes_checks_mutant(feat) ==
    /\ feat.fields["geometryProperty"] = << << 2, 49 >> >>
    /\ feat.fields["lineStringProperty"] = << << 2, 49 >> >>

swap_coordinates_yes_checks(feat) ==
    /\ feat.fields["geometryProperty"] = << << 2, 49 >> >>
    /\ feat.fields["lineStringProperty"] = << << 49, 2 >> >>

\* ogr_gmlas_geometryproperty, 'Test that on-the-fly reprojection works'
\* ('POINT (3.0 0.0)')
reprojection_checks(feat) == feat[1].fields["geometryProperty"] = << << 3, 0 >> >>

\* ogr_gmlas_geometryproperty, 'Failed reprojection'
failed_reprojection_checks_mutant(feat) == feat = None

failed_reprojection_checks(feat) ==
    feat # None /\ feat[1].fields["geometryProperty"] = None

\* f.IsFieldSet(n)
IsFieldSet(feat, n) == n \in DOMAIN feat.fields /\ feat.fields[n] # Null

\* ogr_gmlas_same_element_in_different_ns: the tables of the two elements
\* called realizationOfAbstractElt
same_element_tables_checks_mutant(dsv, names) ==
    dsv # "none" /\ "realizationOfAbstractElt" \in names

same_element_tables_checks(dsv, names) ==
    /\ dsv # "none"
    /\ "myns_realizationOfAbstractElt" \in names
    /\ "other_ns_realizationOfAbstractElt" \in names

\* ogr_gmlas_same_element_in_different_ns: the layer count, the key column
\* of the feature of elt, and the tables of the repeated slot of elt2
same_element_junctions_checks_mutant(count, names, feat) ==
    /\ count = 4
    /\ "elt_elt2_abstractElt" \in names

same_element_junctions_checks(count, names, feat) ==
    /\ count = 5
    /\ IsFieldSet(feat, "abstractElt_other_ns_realizationOfAbstractElt_pkid")
    /\ "elt_elt2_abstractElt_myns_realizationOfAbstractElt" \in names
    /\ "elt_elt2_abstractElt_other_ns_realizationOfAbstractElt" \in names

\* ogr_gmlas_composition_compositionPart: the two features of first_composition
composition_junction_checks_mutant(f1, f2) ==
    /\ IsFieldSet(f1, "parent_ogr_pkid") /\ ~ IsFieldSet(f1, "CompositionPart_pkid")
    /\ IsFieldSet(f2, "parent_ogr_pkid") /\ ~ IsFieldSet(f2, "CompositionPart_pkid")

composition_junction_checks(f1, f2) ==
    /\ IsFieldSet(f1, "parent_ogr_pkid") /\ IsFieldSet(f1, "CompositionPart_pkid")
    /\ IsFieldSet(f2, "parent_ogr_pkid") /\ IsFieldSet(f2, "CompositionPart_pkid")

\* ogr_gmlas_composition_compositionPart: the two features of CompositionPart
composition_part_checks(f1, f2) ==
    /\ IsFieldSet(f1, "my_id") /\ IsFieldSet(f1, "a")
    /\ IsFieldSet(f2, "my_id") /\ IsFieldSet(f2, "a")

\* ogr_gmlas_gml_Reference: the layer count and the first feature of main_elt
gml_Reference_checks_mutant(count, feat) ==
    /\ count = 2
    /\ feat.fields["reference_existing_target_elt_href"] = "#BAZ"
    /\ feat.fields["reference_existing_target_elt_pkid"] = Null
    /\ feat.fields["reference_existing_abstract_target_elt_href"] = "#BAW"

gml_Reference_checks(count, feat) ==
    /\ count = 2
    /\ feat.fields["reference_existing_target_elt_href"] = "#BAZ"
    /\ feat.fields["reference_existing_target_elt_pkid"] = "BAZ"
    /\ feat.fields["reference_existing_abstract_target_elt_href"] = "#BAW"

\* ogr_gmlas_link_nested_independant_child
link_nested_checks(feat) == feat.fields["second_my_id"] = "second_id"

\* ogr_gmlas_conf_ignored_xpath, 'Test various XPath syntaxes': the open
various_xpaths_open_checks_mutant(dsv) == dsv = "none"

various_xpaths_open_checks(dsv) == dsv # "none"

\* ogr_gmlas_conf_ignored_xpath, 'Test various XPath syntaxes': 'Ignored fields'
various_xpaths_ignored_checks_mutant(dsv, fields) ==
    dsv # "none" /\ "string" \in fields

various_xpaths_ignored_checks(dsv, fields) ==
    /\ dsv # "none"
    /\ fields \cap { "optionalStrAttr", "fixedValUnset", "base_int", "string",
                      "string_array" } = {}

\* ogr_gmlas_conf_ignored_xpath, 'Test various XPath syntaxes': 'Present fields'
various_xpaths_present_checks_mutant(dsv, fields) ==
    dsv # "none" /\ "int_array" \notin fields

various_xpaths_present_checks(dsv, fields) ==
    dsv # "none" /\ { "int_array", "long" } \subseteq fields

\* ogr_gmlas_conf_ignored_xpath, 'Test unsupported and invalid XPaths'
invalid_xpath_checks_mutant(msg) == msg.class # "XPathSyntaxError"

invalid_xpath_checks(msg) == msg.class = "XPathSyntaxError"

(***************************************************************************)
(* Claims.                                                                 *)
(***************************************************************************)
DiagCount(sq, d) == Cardinality({ i \in 1..Len(sq) : sq[i] = d })

LastOccurrence(children, n) ==
    children[CHOOSE i \in 1..Len(children) :
                /\ children[i].name = n
                /\ \A j \in (i + 1)..Len(children) : children[j].name # n]

\* Fields of the root's class that the schema declares non-repeatable and that
\* occur exactly twice among the children of the document.
TwiceFields ==
    { n \in FieldNames(layers[1]) :
        /\ MaxOccursOf(layers[1], n) = 1
        /\ Occurrences(doc.children, n, Len(doc.children)) = 2 }

\* C1: when a non-repeatable field occurs twice inside the root element
\* (adjacent or with another sibling in between), exactly one Feature is
\* emitted, the field holds the text of the later occurrence, exactly one
\* DuplicateNonArrayField diagnostic names the field's XPath, and the request
\* after the Feature returns None without emitting anything; on the two
\* documents of the tests the values are the ones the tests check.
C1_LastWriteWins ==
    (ds = "open" /\ doc.present /\ doc.closed /\ reader \in { "emitted", "eos" }) =>
        /\ \A n \in TwiceFields :
             /\ Len(out) = 1
             /\ out[1].fields[n] = LastOccurrence(doc.children, n).text
             /\ DiagCount(sink, Diagnostic("DuplicateNonArrayField",
                                           FieldXPath(layers[1], n))) = 1
             /\ reader = "emitted" => f = << out[1] >>
             /\ reader = "eos" => f = None
        /\ ( /\ doc \in { DOC_unexpected_repeated_element,
                          DOC_unexpected_repeated_element_variant }
             /\ opts = DefaultOptions
             /\ reader = "emitted" ) => repeated_element_checks(f, LastErrorMsg)

C1_Witness ==
    /\ doc = DOC_unexpected_repeated_element_variant
    /\ ds = "open" /\ reader = "eos" /\ f = None
    /\ Len(out) = 1 /\ out[1].fields["foo"] = "foo_again"
    /\ TwiceFields = { "foo" }


\* What the schema of an entry reference declares for the root, the included
\* documents taken in.
RECURSIVE SchemaElems(_)
SchemaElems(ref) ==
    LET c == SchemaContent(ref)
        inc[i \in 0..Len(c.includes)] ==
            IF i = 0 THEN <<>> ELSE inc[i - 1] \o SchemaElems(c.includes[i])
    IN c.elems \o inc[Len(c.includes)]

\* The document breaks the content model: an undeclared child, a declared one
\* outside [minOccurs, maxOccurs], or no end tag.
UndeclaredPresent(d, elems) ==
    \E i \in 1..Len(d.children) :
        \A j \in 1..Len(elems) : elems[j].name # d.children[i].name

OutOfBounds(d, elems) ==
    \E j \in 1..Len(elems) :
        LET k == Occurrences(d.children, elems[j].name, Len(d.children))
        IN k < elems[j].minOccurs \/ k > elems[j].maxOccurs

Violates(d, elems) ==
    d.present /\ (UndeclaredPresent(d, elems) \/ OutOfBounds(d, elems) \/ ~ d.closed)

\* Nothing structural can fail: no rule set, a configuration that loads, and an
\* entry schema that is one of the valid local files.
StructurallySound(d, o) ==
    /\ o.CONFIG_FILE.kind \in { "absent", "inline" }
    /\ o.CONFIG_FILE.body.Namespaces = <<>>
    /\ o.CONFIG_FILE.body.XPaths = <<>>
    /\ EntryRef(d, o) \in ValidLocalSchemas

StructuralClasses ==
    { "SchemaNotFound", "SchemaInvalid", "XPathSyntaxError", "PrefixAlreadyMapped",
      "ConfigurationInvalid", "NoSchemaLocation" }

WithoutFail(o) ==
    [o EXCEPT !.FAIL_IF_VALIDATION_ERROR = "", !.CONFIG_FILE.body.FailIfError = ""]

AllOfClass(sq, class) == \A i \in 1..Len(sq) : sq[i].class = class

\* C2: an open with validation enabled and FailIfError set, on a document with
\* at least one schema violation, returns no dataset and no table; the handler
\* has received the validation diagnostics (the ones the open without
\* FailIfError received) followed by the ValidationFailed failure; on the
\* documents of the tests the outcome is the one the tests check.
C2_FailIfError ==
    LET c == EffectiveConfiguration(opts) IN
    ( /\ ds # "unopened"
      /\ c.Validate /\ c.FailIfError
      /\ StructurallySound(doc, opts) \/ (ds = "none" /\ LastErrorMsg.class \notin StructuralClasses)
      /\ Violates(doc, SchemaElems(EntryRef(doc, opts))) ) =>
        /\ ds = "none" /\ layers = <<>> /\ out = <<>>
        /\ Len(sink) >= 2
        /\ LastErrorMsg = Diagnostic("ValidationFailed", Null)
        /\ AllOfClass(SubSeq(sink, 1, Len(sink) - 1), "ValidationError")
        /\ (seen # <<>> /\ seen[1].opts = WithoutFail(opts)) =>
               SubSeq(sink, 1, Len(sink) - 1) = seen[1].error_list
        /\ (doc = DOC_validate /\ opts = OpenOptions("", "YES", "YES", "", ConfigAbsent)) =>
               validate_fail_checks(ds, sink)
        /\ (doc = DOC_conf_invalid /\ opts = OpenOptions("", "", "", "", CONF_validation_fail)) =>
               conf_validation_checks(ds, LastErrorMsg)

C2_Witness ==
    /\ doc = DOC_validate
    /\ opts = OpenOptions("", "YES", "YES", "", ConfigAbsent)
    /\ ds = "none" /\ Len(sink) = 3
    /\ seen # <<>> /\ seen[1].opts = WithoutFail(opts)


ValidatesOnly(o) ==
    EffectiveConfiguration(o).Validate /\ ~ EffectiveConfiguration(o).FailIfError

\* The open step of C3: with validation enabled and FailIfError unset the open
\* returns what it returns with every validation setting taken out, in the
\* same environment, and it succeeds whenever nothing structural can fail.
C3_OpenStep ==
    \A o \in OptionsFor(doc) :
        (Open(o) /\ ValidatesOnly(o)) =>
            LET r == OpenEx(doc, WithoutValidation(o), server, cache) IN
            /\ ds' = r.ds
            /\ layers' = r.layers
            /\ cache' = r.env.cache
            /\ StructurallySound(doc, o) => ds' = "open"

\* The states of C3: the diagnostics of an open are those of the first open
\* with the same options (none for a conforming document, none without a
\* document), the Features read are those read without validation.
C3_State ==
    (ds = "open" /\ ValidatesOnly(opts)) =>
        /\ (reader = "start" /\ seen # <<>> /\ seen[1].opts = opts) =>
               sink = seen[1].error_list
        /\ (reader = "start" /\ ~ Violates(doc, SchemaElems(EntryRef(doc, opts)))) =>
               sink = <<>>
        /\ (reader = "start" /\ ~ doc.present) => validate_without_doc_checks(ds, sink)
        /\ (reader \in { "eos", "failed" } /\ plain # <<>>
                /\ plain[1].opts = WithoutValidation(opts)) =>
               out = plain[1].out /\ layers = plain[1].layers
        /\ (reader = "start" /\ doc = DOC_validate
                /\ opts = OpenOptions("", "YES", "", "", ConfigAbsent)) =>
               validate_checks(ds, sink)

\* C3: opening with validation enabled and FailIfError unset succeeds as it
\* does without validation and yields the same tables and Features; the
\* diagnostics the handler receives are the same on every open of the same
\* document, none for a conforming document and none in schema-only mode.
C3_ValidationDoesNotInterfere == [][C3_OpenStep /\ C3_State']_vars

C3_Witness ==
    /\ doc = DOC_validate
    /\ opts = OpenOptions("", "YES", "", "", ConfigAbsent)
    /\ ds = "open" /\ reader = "eos"
    /\ Len(sink) = 2 /\ Len(out) = 1
    /\ seen # <<>> /\ seen[1].opts = opts
    /\ plain # <<>> /\ plain[1].out = out

\* No validation setting among the options.
NoValidationSetting(o) ==
    /\ o.VALIDATE = "" /\ o.FAIL_IF_VALIDATION_ERROR = ""
    /\ o.CONFIG_FILE.body.ValidationEnabled = ""
    /\ o.CONFIG_FILE.body.FailIfError = ""

NoRepeatedChild(d) ==
    \A i, j \in 1..Len(d.children) : d.children[i].name = d.children[j].name => i = j

\* C4: with no validation setting, a document that misses a required element
\* or holds an element the schema does not declare is opened and read to the
\* end without the handler receiving anything; whatever the document, the
\* handler never receives a validation diagnostic.
C4_ValidationOffByDefault ==
    (ds = "open" /\ NoValidationSetting(opts) /\ doc.present /\ doc.closed) =>
        /\ \A i \in 1..Len(sink) :
               sink[i].class \notin { "ValidationError", "ValidationFailed" }
        /\ NoRepeatedChild(doc) => sink = <<>>
        /\ (doc = DOC_validate /\ opts = DefaultOptions /\ reader = "eos") =>
               validate_default_checks(ds, LastErrorMsg)

C4_Witness ==
    /\ doc = DOC_validate /\ opts = DefaultOptions
    /\ ds = "open" /\ reader = "eos" /\ Len(out) = 1 /\ sink = <<>>
    /\ Violates(doc, SchemaElems(EntryRef(doc, opts)))

\* The references reachable from a reference through the includes.
RECURSIVE Closure(_)
Closure(ref) ==
    IF ref \notin (DOMAIN RemoteFiles \cup DOMAIN LocalFiles)
    THEN { ref }
    ELSE LET inc == SchemaContent(ref).includes
         IN { ref } \cup UNION { Closure(inc[i]) : i \in 1..Len(inc) }

\* The remote schemas an open of d with options o has to resolve.
RemoteClosure(d, o) == { r \in Closure(EntryRef(d, o)) : IsRemote(r) }

\* The configuration document loads and its rule set is accepted.
ConfigLoads(o) ==
    /\ o.CONFIG_FILE.kind \in { "absent", "inline" }
    /\ DuplicatePrefix(o.CONFIG_FILE.body.Namespaces, 1) = ""
    /\ FirstBadXPath(o.CONFIG_FILE.body.XPaths, 1) = 0

WithoutRefresh(o) == [o EXCEPT !.REFRESH_CACHE = ""]

CachedBefore(o) ==
    EffectiveConfiguration(o).CacheDirectory # "" /\ RemoteClosure(doc, o) \subseteq cache

\* The open step of C5, for an open with REFRESH_CACHE of a document with
\* remote schemas.
C5_OpenStep ==
    \A o \in OptionsFor(doc) :
        ( /\ Open(o)
          /\ EffectiveConfiguration(o).RefreshCache
          /\ ConfigLoads(o)
          /\ RemoteClosure(doc, o) # {} ) =>
            LET conf == EffectiveConfiguration(o)
                msg  == LastErrorMsg'
            IN /\ ds' = "open" =>
                     /\ \A r \in RemoteClosure(doc, o) : InSet(r, net')
                     /\ conf.CacheDirectory # "" => RemoteClosure(doc, o) \subseteq cache'
               /\ (conf.AllowRemoteDownload /\ server = "up") => ds' = "open"
               /\ server # "up" =>
                     /\ ds' = "none" /\ layers' = <<>>
                     /\ msg.class = "SchemaNotFound"
                     /\ msg.about \in RemoteClosure(doc, o)
                     /\ cache' = cache
                     /\ conf.AllowRemoteDownload => net' = << msg.about >>
               /\ (server # "up" /\ CachedBefore(o)) =>
                     LET r == OpenEx(doc, WithoutRefresh(o), server, cache)
                     IN r.ds = "open" /\ r.env.net = <<>>
               /\ ( /\ doc = DOC_cache
                    /\ o = OpenOptions("", "", "", "YES", CONF_cache)
                    /\ server = "down" /\ CachedBefore(o) ) =>
                     cache_refresh_checks(ds', msg)

\* C5: an open with REFRESH_CACHE that succeeds has requested every remote
\* schema of the document from the network, cached copies or not, and leaves
\* them in the cache directory when one is configured; when the server is
\* unavailable it returns no dataset, the last error is SchemaNotFound for one
\* of these schemas and the cache is left as it was, although with every
\* schema cached the same open without REFRESH_CACHE succeeds without any
\* request.
C5_RefreshCache == [][C5_OpenStep]_vars

C5_Witness ==
    /\ doc = DOC_cache
    /\ opts = OpenOptions("", "", "", "YES", CONF_cache)
    /\ server = "down"
    /\ cache = { URL_cache, URL_cache_2 }
    /\ ds = "none" /\ LastErrorMsg = Diagnostic("SchemaNotFound", URL_cache)
    /\ net = << URL_cache >>

\* The open step of C6, for an open without REFRESH_CACHE of the document whose
\* schemas an earlier open stored in the cache, nothing deleted since.
C6_OpenStep ==
    \A o \in OptionsFor(doc) :
        ( /\ Open(o)
          /\ populated # <<>> /\ populated[1].untouched
          /\ EntryRef(doc, o) = populated[1].entry
          /\ EffectiveConfiguration(o).CacheDirectory # ""
          /\ ~ EffectiveConfiguration(o).RefreshCache
          /\ ConfigLoads(o) ) =>
            /\ ds' = "open"
            /\ net' = <<>>
            /\ cache' = cache
            /\ TableNames(layers') = TableNames(populated[1].layers)
            /\ layers' = populated[1].layers
            /\ ( /\ doc = DOC_cache
                 /\ o = OpenOptions("", "", "", "", CONF_cache)
                 /\ server = "down" ) =>
                  cache_server_off_checks(ds', Len(layers'))

\* C6: once an open has succeeded and stored the schemas of the document in
\* the cache directory, and no cache entry has been deleted since, every open
\* of the document with that cache directory and without REFRESH_CACHE
\* succeeds, server up or down, requests nothing from the network, leaves the
\* cache as it is and yields the tables of the populating open.
C6_CacheIdempotence == [][C6_OpenStep]_vars

C6_Witness ==
    /\ doc = DOC_cache
    /\ opts = OpenOptions("", "", "", "", CONF_cache)
    /\ server = "down"
    /\ populated # <<>> /\ populated[1].untouched
    /\ ds = "open" /\ net = <<>> /\ layers = populated[1].layers
    /\ cache = { URL_cache, URL_cache_2 }

\* The remote schemas the cache does not serve to an open with options o.
NotServed(d, o) ==
    { r \in RemoteClosure(d, o) :
        ~ ( /\ EffectiveConfiguration(o).CacheDirectory # ""
            /\ r \in cache
            /\ ~ EffectiveConfiguration(o).RefreshCache ) }

\* The open step of C7, for an open with AllowRemoteSchemaDownload false.
C7_OpenStep ==
    \A o \in OptionsFor(doc) :
        ( /\ Open(o)
          /\ ~ EffectiveConfiguration(o).AllowRemoteDownload
          /\ ConfigLoads(o) ) =>
            LET msg == LastErrorMsg'
            IN /\ net' = <<>>
               /\ cache' = cache
               /\ NotServed(doc, o) # {} =>
                     /\ ds' = "none" /\ layers' = <<>>
                     /\ msg.class = "SchemaNotFound"
                     /\ msg.about \in NotServed(doc, o)
               /\ ( /\ doc = DOC_cache
                    /\ o = OpenOptions("", "", "", "", CONF_no_download)
                    /\ cache = {} ) =>
                     cache_download_disabled_checks(ds', msg)

C8_OpenStep ==
    \A o \in OptionsFor(doc) :
        ( /\ Open(o)
          /\ populated # <<>>
          /\ unlinked \cap RemoteClosure(doc, o) # {}
          /\ EntryRef(doc, o) = populated[1].entry
          /\ EffectiveConfiguration(o).CacheDirectory # ""
          /\ ConfigLoads(o) ) =>
            LET conf == EffectiveConfiguration(o)
                msg  == LastErrorMsg'
            IN /\ (conf.AllowRemoteDownload /\ server = "up") =>
                     /\ ds' = "open"
                     /\ layers' = populated[1].layers
                     /\ \A u \in unlinked : InSet(u, net') /\ u \in cache'
                     /\ RemoteClosure(doc, o) \subseteq cache'
               /\ server # "up" =>
                     /\ ds' = "none" /\ layers' = <<>>
                     /\ msg.class = "SchemaNotFound"
                     /\ msg.about \in RemoteClosure(doc, o)
                     /\ ~ conf.RefreshCache => msg.about \notin cache
                     /\ conf.AllowRemoteDownload => net' = << msg.about >>
                     /\ cache' = cache
               /\ ( /\ doc = DOC_cache
                    /\ o = OpenOptions("", "", "", "", CONF_cache)
                    /\ server = "up" ) =>
                     cache_unlink_reopen_checks(ds', Len(layers'))
               /\ ( /\ doc = DOC_cache
                    /\ o = OpenOptions("", "", "", "", CONF_cache)
                    /\ server = "down" ) =>
                     cache_unlinked_server_off_checks(ds', msg)

\* C8: when cache entries of the document have been deleted since the last
\* open, the next open with the cache directory resolves them again: with the
\* download allowed and the server up it requests each deleted schema from the
\* network, succeeds with the tables of the populating open and stores the
\* entries again; with the server down it returns no dataset and no table, and
\* the last error is SchemaNotFound for a schema the cache does not hold.
C8_DeletedCacheEntry == [][C8_OpenStep]_vars

C8_Witness ==
    /\ doc = DOC_cache
    /\ opts = OpenOptions("", "", "", "", CONF_cache)
    /\ server = "down"
    /\ populated # <<>> /\ ~ populated[1].untouched
    /\ Cardinality(cache) = 1
    /\ ds = "none" /\ layers = <<>>
    /\ LastErrorMsg.class = "SchemaNotFound" /\ LastErrorMsg.about \notin cache
    /\ net = << LastErrorMsg.about >>

StructuralFatal ==
    { "SchemaNotFound", "SchemaInvalid", "XPathSyntaxError", "PrefixAlreadyMapped",
      "ConfigurationInvalid" }

\* The handler has received a diagnostic of one of the five classes.
RaisedStructural == \E i \in 1..Len(sink) : sink[i].class \in StructuralFatal

\* The identifiers an open hands to the driver: the schema references, the
\* configuration file, the patterns and the prefixes of the rule set.
SchemaRefs(d, o) == Closure(EntryRef(d, o)) \ { "" }

ConfigFiles(o) ==
    IF o.CONFIG_FILE.kind \in { "missing", "broken" } THEN { o.CONFIG_FILE.name } ELSE {}

Patterns(o) ==
    { PatternText(o.CONFIG_FILE.body.XPaths[i]) : i \in 1..Len(o.CONFIG_FILE.body.XPaths) }

Prefixes(o) ==
    { o.CONFIG_FILE.body.Namespaces[i].prefix :
        i \in 1..Len(o.CONFIG_FILE.body.Namespaces) }

\* No dataset at all: no table, nothing read, and exactly the failure reported.
NoDataset ==
    /\ ds = "none" /\ layers = <<>>
    /\ out = <<>> /\ f = None /\ reader = "start"
    /\ Len(sink) = 1

ValidSchemaReference(o) == o.XSD \in ValidLocalSchemas

\* Schema-only mode: the tables of the schema, and no Feature.
SchemaOnly ==
    /\ ds = "open" /\ layers # <<>>
    /\ out = <<>> /\ f = None /\ reader \in { "start", "eos" }

C11_OpenStep ==
    \A o \in OptionsFor(doc) :
        ( /\ Open(o)
          /\ doc.present /\ ~ doc.closed
          /\ ~ (EffectiveConfiguration(o).Validate /\ EffectiveConfiguration(o).FailIfError) ) =>
            /\ ds' = OpenEx([doc EXCEPT !.closed = TRUE], o, server, cache).ds
            /\ StructurallySound(doc, o) => ds' = "open"
            /\ DiagCount(sink', Diagnostic("MalformedDocument", "main_elt")) = 0

\* The feature requests of C11: the first one returns None and raises
\* MalformedDocument, the later ones return None and raise nothing.
C11_RequestStep ==
    (GetNextFeature /\ doc.present /\ ~ doc.closed) =>
        /\ f' = None /\ out' = <<>> /\ reader' = "failed"
        /\ reader = "start" =>
              sink' = Append(sink, Diagnostic("MalformedDocument", "main_elt"))
        /\ reader # "start" => sink' = sink
        /\ (doc = DOC_invalid_xml /\ opts = DefaultOptions /\ reader = "start") =>
              invalid_xml_checks(ds', f', LastErrorMsg')

\* C11: a document whose input ends before the root element is ended opens
\* as the complete document does (validation with FailIfError set aside); the
\* first feature request after the open returns no Feature and raises
\* MalformedDocument, and every later request returns no Feature either.
C11_MalformedDocument == [][C11_OpenStep /\ C11_RequestStep]_vars

C11_Witness ==
    /\ doc = DOC_invalid_xml /\ opts = DefaultOptions
    /\ ds = "open" /\ reader = "failed" /\ f = None /\ out = <<>>
    /\ sink = << Diagnostic("MalformedDocument", "main_elt") >>

\* A pattern fits a source XPath: its steps can be laid on steps of the path
\* in order, the last on the last, a step after "/" right below the one
\* before it, a step after "//" anywhere below.
Fits(p, path, ns) ==
    LET ps == PatternSteps(p) IN
    \E g \in [1..Len(ps) -> 1..Len(path)] :
        /\ g[Len(ps)] = Len(path)
        /\ \A i \in 1..Len(ps) : StepMatches(ps[i], path[g[i]], ns)
        /\ \A i \in 2..Len(ps) :
              IF ps[i].axis = "/" THEN g[i] = g[i - 1] + 1 ELSE g[i] > g[i - 1]

\* The Fields the schema of the open declares that no rule of the open fits.
NotExcluded(d, o) ==
    LET decl == SchemaElems(EntryRef(d, o))
        body == o.CONFIG_FILE.body
    IN { decl[j].name : j \in { k \in 1..Len(decl) :
            \A i \in 1..Len(body.XPaths) :
                ~ Fits(body.XPaths[i], decl[k].path, body.Namespaces) } }

OptionsVarious(xsd) == OpenOptions(xsd, "", "", "", CONF_various_xpaths)

\* C12: the Fields of the built table are exactly the declared Fields that no
\* IgnoredXPaths rule fits, whatever the document holds and without a
\* document; with the rules of the test the five Fields it lists are gone.
C12_IgnoredFieldsAbsent ==
    ds = "open" =>
        /\ FieldNames(layers[1]) = NotExcluded(doc, opts)
        /\ opts \in { OptionsVarious(""), OptionsVarious(PATH_gmlas_test1) } =>
               various_xpaths_ignored_checks(ds, FieldNames(layers[1]))

C12_Witness ==
    /\ doc = Document(PATH_gmlas_test1, << Child("string", "s"), Child("long", "1") >>, TRUE)
    /\ opts = OptionsVarious("")
    /\ ds = "open" /\ reader = "eos"
    /\ FieldNames(layers[1]) = { "otherns_id", "int_array", "long" }
    /\ Len(out) = 1 /\ out[1].fields["long"] = "1"

\* The declared Fields of the open that a rule fits, each with the first such
\* rule: {name, about, rule}.
Excluded(d, o) ==
    LET decl == SchemaElems(EntryRef(d, o))
        body == o.CONFIG_FILE.body
        FitsRule(k, i) == Fits(body.XPaths[i], decl[k].path, body.Namespaces)
    IN { [name  |-> decl[k].name, about |-> PathText(decl[k].path),
          rule  |-> CHOOSE i \in 1..Len(body.XPaths) :
                        FitsRule(k, i) /\ \A j \in 1..(i - 1) : ~ FitsRule(k, j)] :
         k \in { k \in 1..Len(decl) : \E i \in 1..Len(body.XPaths) : FitsRule(k, i) } }

FlagGiven(body, i) == body.XPathWarn[i] # "" \/ body.WarnDefault # ""

\* The flag of the rule when it gives one, else the flag of the rule set.
EffectiveFlag(body, i) ==
    IF body.XPathWarn[i] # "" THEN body.XPathWarn[i] ELSE body.WarnDefault

IgnoredDiags == { i \in 1..Len(sink) : sink[i].class = "IgnoredXPathMatchedInInstance" }

\* C13: nothing is reported before the document is read; once it is read, the
\* handler has received, for each excluded Field whose rule has the effective
\* flag true, one IgnoredXPathMatchedInInstance per occurrence of the Field in
\* the document, about its XPath, and none for a rule whose effective flag is
\* false; the effective flag is the rule's own when given, else the rule
\* set's.  On the document of the tests the outcome is what the tests check.
C13_WarnFlag ==
    (ds = "open" /\ doc.present) =>
        LET body == opts.CONFIG_FILE.body IN
        /\ reader = "start" => IgnoredDiags = {}
        /\ reader \in { "emitted", "eos" } =>
              /\ \A e \in Excluded(doc, opts) :
                    FlagGiven(body, e.rule) =>
                        DiagCount(sink, Diagnostic("IgnoredXPathMatchedInInstance", e.about))
                          = IF EffectiveFlag(body, e.rule) = "true"
                            THEN Occurrences(doc.children, e.name, Len(doc.children))
                            ELSE 0
              /\ \A i \in IgnoredDiags :
                    \E e \in Excluded(doc, opts) : sink[i].about = e.about
        /\ (doc = DOC_gmlas_test1 /\ reader = "emitted") =>
              /\ opts.CONFIG_FILE = CONF_ignored_xpath =>
                    ignored_xpath_warn_checks(ds, FieldNames(layers[1]), LastErrorMsg)
              /\ opts.CONFIG_FILE = CONF_ignored_xpath_no_warn =>
                    ignored_xpath_no_warn_checks(ds, LastErrorMsg)

C13_Witness ==
    /\ doc = Document(PATH_gmlas_test1,
                      << Child("string_array", "a"), Child("string_array", "a") >>, TRUE)
    /\ opts.CONFIG_FILE = RuleConf(<<>>, << MatchingXPaths[5] >>, "false", << "true" >>)
    /\ ds = "open" /\ reader = "eos"
    /\ Len(sink) = 2 /\ IgnoredDiags = { 1, 2 }

SeqRange(sq) == { sq[i] : i \in 1..Len(sq) }

\* The patterns of the tests whose opens succeed.
ValidXPaths ==
    SeqRange(MatchingXPaths) \cup SeqRange(NoMatchXPaths)
    \cup { XPATH_otherns_id, << "@", "other_ns", ":", "id" >> }

\* C18: none of the eleven patterns parses, while the patterns of the opens
\* that succeed do; an open whose rule set holds one of the eleven returns no
\* dataset and the last error is XPathSyntaxError about that pattern.
C18_XPathSyntaxErrors ==
    /\ \A p \in InvalidXPaths : ~ XPathSyntaxOK(p)
    /\ \A p \in ValidXPaths \cup GeneratedPatterns : XPathSyntaxOK(p)
    /\ ( /\ ds # "unopened"
         /\ opts.CONFIG_FILE.kind = "inline"
         /\ opts.CONFIG_FILE.body.XPaths # <<>>
         /\ opts.CONFIG_FILE.body.XPaths[1] \in InvalidXPaths ) =>
            /\ NoDataset
            /\ LastErrorMsg = Diagnostic("XPathSyntaxError",
                                         PatternText(opts.CONFIG_FILE.body.XPaths[1]))
            /\ invalid_xpath_checks(LastErrorMsg)

C18_Witness ==
    /\ doc = NoDocument
    /\ opts = OpenOptions(PATH_gmlas_test1, "", "", "",
                          CONF_invalid_xpath(<< "foo", "[", "@", "bar", "=", "'baz'", "]" >>))
    /\ NoDataset
    /\ LastErrorMsg = Diagnostic("XPathSyntaxError", "foo[@bar='baz']")

\* The rules of the open whose pattern uses a prefix that neither the
\* namespace table of the rule set nor the schema resolves.
UnresolvableRules(o) ==
    LET body == o.CONFIG_FILE.body IN
    { i \in 1..Len(body.XPaths) :
        \E k \in 1..Len(PatternSteps(body.XPaths[i])) :
            ResolvePrefix(PatternSteps(body.XPaths[i])[k].prefix, body.Namespaces)
              = Unresolved }

\* The schema of the open is one of the two the rules are tried against.
RuleSchema(d, o) == EntryRef(d, o) \in { PATH_gmlas_test1, PATH_nested }

\* C19 as stated: an open with a pattern whose prefix cannot be resolved
\* fails with XPathSyntaxError about the pattern.
C19_AsStated ==
    (ds # "unopened" /\ ConfigLoads(opts) /\ RuleSchema(doc, opts)
        /\ UnresolvableRules(opts) # {}) =>
        /\ ds = "none"
        /\ LastErrorMsg.class = "XPathSyntaxError"
        /\ \E i \in UnresolvableRules(opts) :
              LastErrorMsg.about = PatternText(opts.CONFIG_FILE.body.XPaths[i])

\* C19: a well-formed pattern whose prefix is resolved neither by the
\* namespace table of the rule set nor by the schema is not an error: the
\* open succeeds, raises no XPathSyntaxError, and the rule fits no declared
\* Field; the open of the test with 'unknown_ns:foo' returns a dataset.
C19_UnresolvablePrefix ==
    (ds # "unopened" /\ ConfigLoads(opts) /\ RuleSchema(doc, opts)
        /\ UnresolvableRules(opts) # {}) =>
        LET body == opts.CONFIG_FILE.body
            decl == SchemaElems(EntryRef(doc, opts))
        IN /\ ds = "open"
           /\ \A i \in 1..Len(sink) : sink[i].class # "XPathSyntaxError"
           /\ \A i \in UnresolvableRules(opts) : \A k \in 1..Len(decl) :
                 ~ MatchesXPath(body.XPaths[i], decl[k].path, body.Namespaces)
           /\ opts = OptionsVarious(PATH_gmlas_test1) => various_xpaths_open_checks(ds)

C19_Witness ==
    /\ doc = NoDocument
    /\ opts = OpenOptions(PATH_gmlas_test1, "", "", "",
                          RuleConf(<<>>, << << "unknown_ns", ":", "foo" >> >>, "", << "" >>))
    /\ ds = "open" /\ sink = <<>>
    /\ Cardinality(FieldNames(layers[1])) = 8

\* The rules of the open that fit no Field the schema declares.
NeverFires(d, o) ==
    LET decl == SchemaElems(EntryRef(d, o))
        body == o.CONFIG_FILE.body
    IN { i \in 1..Len(body.XPaths) :
           \A k \in 1..Len(decl) : ~ Fits(body.XPaths[i], decl[k].path, body.Namespaces) }

\* The declared Fields that no rule other than rule i fits.
NotExcludedBut(d, o, i) ==
    LET decl == SchemaElems(EntryRef(d, o))
        body == o.CONFIG_FILE.body
    IN { decl[j].name : j \in { k \in 1..Len(decl) :
            \A r \in (1..Len(body.XPaths)) \ { i } :
                ~ Fits(body.XPaths[r], decl[k].path, body.Namespaces) } }

\* C20: each of the four patterns of the test fits no Field of its schema; an
\* open whose rule set is well-formed succeeds whether or not its rules fire,
\* and a rule that fits no declared Field removes none: the Fields of the
\* table are those the other rules leave.  With the rules of the test,
\* int_array and long are present.
C20_RulesThatNeverFire ==
    /\ \A p \in SeqRange(NoMatchXPaths) : \A k \in 1..Len(XSD_gmlas_test1.elems) :
          ~ Fits(p, XSD_gmlas_test1.elems[k].path, <<>>)
    /\ (ds # "unopened" /\ ConfigLoads(opts) /\ RuleSchema(doc, opts)) =>
          /\ ds = "open"
          /\ \A i \in NeverFires(doc, opts) :
                FieldNames(layers[1]) = NotExcludedBut(doc, opts, i)
          /\ opts \in { OptionsVarious(""), OptionsVarious(PATH_gmlas_test1) } =>
                /\ { 6, 7, 8, 9 } \subseteq NeverFires(doc, opts)
                /\ various_xpaths_present_checks(ds, FieldNames(layers[1]))

C20_Witness ==
    /\ doc = NoDocument
    /\ opts = OptionsVarious(PATH_gmlas_test1)
    /\ ds = "open"
    /\ NeverFires(doc, opts) = { 6, 7, 8, 9 }
    /\ { "int_array", "long" } \subseteq FieldNames(layers[1])

\* The concrete top-level elements of the schema of the open.
ConcreteElements(d, o) ==
    LET decls == SchemaElements(EntryRef(d, o)) IN
    { decls[i] : i \in { k \in 1..Len(decls) : ~ decls[k].abstract } }

\* Another concrete element has the same local name in another namespace.
Collides(e, E) == \E x \in E : x.name = e.name /\ x.ns # e.ns

\* The name the table of e has to carry.
Disambiguated(e, E) == IF Collides(e, E) THEN e.ns \o "_" \o e.name ELSE e.name

\* The tables built for the element e: those whose source XPath is e.
TablesOf(e) ==
    { i \in 1..Len(layers) : layers[i].xpath = PathText(<< Step(FALSE, e.ns, e.name) >>) }

\* C14: in a built model no two tables share a name; every concrete
\* top-level element has one table; the tables of two elements with the same
\* local name in different namespaces both carry the namespace-prefixed name
\* and none carries the bare local name; the table of an element whose local
\* name collides with no other carries the bare local name.  On the files
\* of the test the two tables the test fetches exist.
C14_TableNaming ==
    (ds = "open" /\ IsTree(doc)) =>
        LET E == ConcreteElements(doc, opts) IN
        /\ \A i, j \in 1..Len(layers) : layers[i].name = layers[j].name => i = j
        /\ \A e \in E :
              /\ Cardinality(TablesOf(e)) = 1
              /\ \A i \in TablesOf(e) :
                    layers[i].name = IF Collides(e, E) THEN e.ns \o "_" \o e.name
                                     ELSE e.name
              /\ Collides(e, E) => e.name \notin TableNames(layers)
        /\ vsimem = FILES_same_element_in_different_ns =>
              same_element_tables_checks(ds, TableNames(layers))

C14_Witness ==
    /\ doc = DOC_same_element_in_different_ns
    /\ vsimem = FILES_same_element_in_different_ns
    /\ ds = "open"
    /\ { "elt", "myns_realizationOfAbstractElt", "other_ns_realizationOfAbstractElt" }
          \subseteq TableNames(layers)
    /\ "realizationOfAbstractElt" \notin TableNames(layers)

\* The slots for an abstract element in the content models of the schema of
\* the open: in the content of a concrete top-level element, or in the
\* content of one of its non-repeated local elements.  ctx names the parent
\* context, pre the prefix of the columns the slot gives to the table of e.
AbstractSlots(d, o) ==
    LET decls == SchemaElements(EntryRef(d, o))
        E     == ConcreteElements(d, o)
        IsSlot(p) == p.kind = "ref" /\ Lookup(decls, p.ns, p.name).abstract
        Top(e) ==
            { [carrier |-> e, ctx |-> Disambiguated(e, E), pre |-> "",
               head |-> Lookup(decls, e.content[i].ns, e.content[i].name),
               repeated |-> e.content[i].repeated] :
                i \in { k \in 1..Len(e.content) : IsSlot(e.content[k]) } }
        Below(e, n) ==
            { [carrier |-> e, ctx |-> Disambiguated(e, E) \o "_" \o n.name,
               pre |-> n.name \o "_",
               head |-> Lookup(decls, n.content[i].ns, n.content[i].name),
               repeated |-> n.content[i].repeated] :
                i \in { k \in 1..Len(n.content) : IsSlot(n.content[k]) } }
    IN UNION { Top(e) \cup
               UNION { Below(e, e.content[i]) :
                         i \in { k \in 1..Len(e.content) :
                                   e.content[k].kind = "nested" /\ ~ e.content[k].repeated } } :
               e \in E }

\* The concrete elements of the substitution group of the head of a slot.
RealizationsOf(s, E) ==
    { e \in E : e.substitutionGroup = << s.head.ns, s.head.name >> }

JunctionName(s, r, E) == s.ctx \o "_" \o s.head.name \o "_" \o Disambiguated(r, E)

KeyColumn(s, r, E) == s.pre \o s.head.name \o "_" \o Disambiguated(r, E) \o "_pkid"

\* C15: for every repeated slot of an abstract element and every concrete
\* realization of it there is exactly one table named context, abstract
\* element, disambiguated realization, and the table of the parent has no key
\* column for it; these are all the tables beside those of the top-level
\* elements, so that one realization in two contexts has two tables; for a
\* slot that is not repeated the table of the parent has one key column per
\* realization and there is no junction table.  On the files of the test the
\* layer count, the key column and the two junction tables are what it checks.
C15_SubstitutionGroups ==
    (ds = "open" /\ vsimem \in SubstitutionSchemas \cup { FILES_same_element_in_different_ns }) =>
        LET E == ConcreteElements(doc, opts)
            S == AbstractSlots(doc, opts)
            J == { << s, r >> \in S \X E : s.repeated /\ r \in RealizationsOf(s, E) }
        IN /\ \A s \in S : \A r \in RealizationsOf(s, E) :
                 \A i \in TablesOf(s.carrier) :
                    IF s.repeated
                    THEN /\ Cardinality({ k \in 1..Len(layers) :
                                            layers[k].name = JunctionName(s, r, E) }) = 1
                         /\ KeyColumn(s, r, E) \notin FieldNames(layers[i])
                    ELSE /\ JunctionName(s, r, E) \notin TableNames(layers)
                         /\ KeyColumn(s, r, E) \in FieldNames(layers[i])
           /\ Len(layers) = Cardinality(E) + Cardinality(J)
           /\ \A x, y \in J : JunctionName(x[1], x[2], E) = JunctionName(y[1], y[2], E) => x = y
           /\ ( /\ doc = DOC_same_element_in_different_ns
                /\ vsimem = FILES_same_element_in_different_ns
                /\ lyr = 1 /\ reader = "emitted" ) =>
                 same_element_junctions_checks(Len(layers), TableNames(layers), f[1])

C15_Witness ==
    /\ vsimem = SubstitutionFiles("repeated", "repeated", "realization", "absent",
                                  "realization", "plain")
    /\ ds = "open"
    /\ { "elt_abstractElt_myns_realizationOfAbstractElt",
          "elt_abstractElt_other_ns_realizationOfAbstractElt",
          "elt_elt2_abstractElt_myns_realizationOfAbstractElt",
          "elt_elt2_abstractElt_other_ns_realizationOfAbstractElt" }
          \subseteq TableNames(layers)
    /\ Len(layers) = 8

\* The wrappers of a document of the composition schema, and the
\* identifiers of their parts.
Wrappers(d) == d.root.kids

PartIdOf(w) == w.kids[1].id

PartIdsOf(d) == { PartIdOf(Wrappers(d)[i]) : i \in 1..Len(Wrappers(d)) }

\* C16: for a document of N composition wrappers, each with one
\* CompositionPart of its own identifier, a complete read of
\* first_composition returns N rows, row i with the parent key set and with
\* the identifier of the part of wrapper i as child key; a complete read of
\* CompositionPart returns one row per identifier, its key and its my_id
\* being the identifier, so that every child key names one of these rows.
\* On the document of the test the two features of each layer are as the
\* test checks, and the link of the other test holds the identifier.
C16_PropertyPart ==
    /\ (ds = "open" /\ EntryRef(doc, opts) = PATH_composition) =>
          LET N == Len(Wrappers(doc)) IN
          /\ layers[lyr].name \in { "first_composition", "CompositionPart" } =>
                /\ Len(out) <= N
                /\ reader = "eos" => Len(out) = N
          /\ layers[lyr].name = "first_composition" =>
                /\ \A i \in 1..Len(out) :
                      /\ IsFieldSet(out[i], "parent_ogr_pkid")
                      /\ out[i].fields["CompositionPart_pkid"] = PartIdOf(Wrappers(doc)[i])
                /\ (doc = DOC_composition_compositionPart /\ Len(out) = 2) =>
                      composition_junction_checks(out[1], out[2])
          /\ layers[lyr].name = "CompositionPart" =>
                /\ \A i \in 1..Len(out) :
                      /\ out[i].ogr_pkid = out[i].fields["my_id"]
                      /\ out[i].fields["my_id"] \in PartIdsOf(doc)
                /\ \A i, j \in 1..Len(out) :
                      out[i].fields["my_id"] = out[j].fields["my_id"] => i = j
                /\ reader = "eos" =>
                      { out[i].fields["my_id"] : i \in 1..Len(out) } = PartIdsOf(doc)
                /\ (doc = DOC_composition_compositionPart /\ Len(out) = 2) =>
                      composition_part_checks(out[1], out[2])
    /\ (ds = "open" /\ doc = DOC_link_nested_independant_child
           /\ lyr = 1 /\ reader = "emitted") => link_nested_checks(f[1])

C16_Witness ==
    /\ doc = DOC_composition_compositionPart
    /\ ds = "open" /\ reader = "eos"
    /\ layers[lyr].name = "first_composition"
    /\ Len(out) = 2
    /\ out[1].fields["CompositionPart_pkid"] = "id1"
    /\ out[2].fields["CompositionPart_pkid"] = "id2"

\* The value of a setting by precedence: the open option when given, else the
\* element of the configuration document when given, else the default.
Precedent(option, setting, default) ==
    IF option \in { "YES", "NO" } THEN option = "YES"
    ELSE IF setting \in { "true", "false" } THEN setting = "true"
    ELSE default

YesNo(b) == IF b THEN "YES" ELSE "NO"

\* The options that give every such setting its value by precedence as an
\* open option, and none in the configuration document.
Canonical(o) ==
    LET b == o.CONFIG_FILE.body IN
    [o EXCEPT !.VALIDATE = YesNo(Precedent(o.VALIDATE, b.ValidationEnabled, FALSE)),
              !.FAIL_IF_VALIDATION_ERROR =
                  YesNo(Precedent(o.FAIL_IF_VALIDATION_ERROR, b.FailIfError, FALSE)),
              !.EXPOSE_METADATA_LAYERS =
                  YesNo(Precedent(o.EXPOSE_METADATA_LAYERS, b.ExposeMetadataLayers, FALSE)),
              !.CONFIG_FILE.body.ValidationEnabled = "",
              !.CONFIG_FILE.body.FailIfError = "",
              !.CONFIG_FILE.body.ExposeMetadataLayers = ""]

\* C17: an open behaves as the open that gives every setting its value by
\* precedence (open option, else configuration document, else default):
\* same outcome, same tables, same diagnostics; the tables listed are those
\* of the model, and the three metadata tables exactly when
\* ExposeMetadataLayers is in effect by precedence.  With
\* ExposeMetadataLayers=true in the document the test counts 4 layers; with
\* EXPOSE_METADATA_LAYERS=NO on top it counts 1, the tables of the open with
\* the default configuration.
C17_MergerPrecedence ==
    (ds # "unopened" /\ reader = "start") =>
        LET r == OpenEx(doc, Canonical(opts), server, cache)
            b == opts.CONFIG_FILE.body
            plainly == OpenEx(doc, DefaultOptions, server, cache)
        IN /\ ds = r.ds /\ layers = r.layers /\ sink = r.sink
           /\ ds = "open" =>
                 Len(layers) = 1 + (IF Precedent(opts.EXPOSE_METADATA_LAYERS,
                                                 b.ExposeMetadataLayers, FALSE)
                                    THEN 3 ELSE 0)
           /\ (doc = DOC_abstractgeometry_gml32 /\ opts = OPTS_expose) =>
                 conf_expose_checks(ds, Len(layers))
           /\ (doc = DOC_abstractgeometry_gml32 /\ opts = OPTS_expose_override) =>
                 /\ conf_expose_override_checks(ds, Len(layers))
                 /\ layers = plainly.layers

C17_Witness ==
    /\ doc = DOC_abstractgeometry_gml32
    /\ opts = OPTS_expose_override
    /\ ds = "open"
    /\ TableNames(layers) = { "main_elt" }

(***************************************************************************)
(* Namespace table of a rule set.                                          *)
(***************************************************************************)
\* The prefixes a namespace table declares for two different URIs.
DeclaredTwice(ns) ==
    { ns[i].prefix : i \in { k \in 1..Len(ns) :
          \E j \in 1..Len(ns) : ns[j].prefix = ns[k].prefix /\ ns[j].uri # ns[k].uri } }

\* C21: an open whose IgnoredXPaths rule set declares one prefix for two
\* different URIs fails: the only diagnostic is PrefixAlreadyMapped, it names
\* such a prefix, and there is no dataset (no table, nothing to read).  A rule
\* set that declares no prefix for two URIs never raises PrefixAlreadyMapped,
\* also when it declares a prefix twice for the same URI.  The open of the
\* test reports 'Prefix ns was already mapped'.
C21_PrefixAlreadyMapped ==
    ds # "unopened" =>
        LET twice == DeclaredTwice(opts.CONFIG_FILE.body.Namespaces) IN
        /\ twice # {} =>
              /\ NoDataset
              /\ LastErrorMsg.class = "PrefixAlreadyMapped"
              /\ LastErrorMsg.about \in twice
        /\ twice = {} => \A i \in 1..Len(sink) : sink[i].class # "PrefixAlreadyMapped"
        /\ (doc = NoDocument
            /\ opts = OpenOptions(PATH_gmlas_test1, "", "", "", CONF_duplicate_prefix)) =>
              duplicate_prefix_checks(LastErrorMsg)

C21_Witness ==
    /\ doc = NoDocument
    /\ opts = OpenOptions(PATH_gmlas_test1, "", "", "", CONF_duplicate_prefix)
    /\ ds = "none" /\ layers = <<>>
    /\ sink = << Diagnostic("PrefixAlreadyMapped", "ns") >>

(***************************************************************************)
(* UseArrays.                                                              *)
(***************************************************************************)
\* The repeated elements of simple type of the schema of an open, each with
\* the table of its parent element.
RepeatedSimple(d, o) ==
    IF IsTree(d) THEN { << "main", "tags" >>, << "main_item", "values" >> }
    ELSE LET elems == SchemaElems(EntryRef(d, o)) IN
         { << "main_elt", elems[i].name >> : i \in { k \in 1..Len(elems) : elems[k].maxOccurs > 1 } }

TableCalled(n) == layers[CHOOSE i \in 1..Len(layers) : layers[i].name = n]

\* The elements of the document that have a row in table t, in document order.
ParentNodes(d, t) ==
    IF ~ IsTree(d) THEN << [kids |-> d.children] >>
    ELSE IF t = "main" THEN << d.root >>
    ELSE LET Item(k) == k.name = "item" IN SelectSeq(d.root.kids, Item)

\* << key of the parent row, text >> of every occurrence of n below the
\* parents j.., in document order.
RECURSIVE OccurrencesBelow(_, _, _, _)
OccurrencesBelow(parents, keys, n, j) ==
    IF j > Len(parents) THEN <<>>
    ELSE LET Named(k) == k.name = n
             hits == SelectSeq(parents[j].kids, Named)
         IN [i \in 1..Len(hits) |-> << keys[j], hits[i].text >>]
            \o OccurrencesBelow(parents, keys, n, j + 1)

\* The keys of the rows of table t, in the order they are read.
KeysOf(d, o, t) ==
    IF IsTree(d)
    THEN LET rows == LayerRows(EffectiveConfiguration(o), TableCalled(t), d,
                               SchemaElements(EntryRef(d, o)))
         IN [i \in 1..Len(rows) |-> rows[i].ogr_pkid]
    ELSE << ReadRoot(layers[1], d, 1).feature.ogr_pkid >>

\* C22: with UseArrays (given as true, or not given) every repeated element
\* of simple type is one array Field of the table of its parent and has no
\* table of its own; a row of that table read from a document tree holds the
\* values of all occurrences, in document order (none: the empty array).  With UseArrays false the
\* table of the parent has no such Field, no table has an array Field, and
\* the element has a child table <parent>_<element> with the columns
\* parent_ogr_pkid and value; read to its end that table has returned exactly
\* one row per occurrence, in document order, each with the value of the
\* occurrence and the key of the row of the element that encloses it.  The
\* test counts 2 features in main_elt_string_array.
C22_UseArrays ==
    ds = "open" =>
        LET use == opts.CONFIG_FILE.body.UseArrays # "false"
            R   == RepeatedSimple(doc, opts)
        IN /\ use =>
                \A r \in R :
                    /\ r[1] \in TableNames(layers)
                    /\ \E i \in 1..Len(TableCalled(r[1]).elems) :
                          /\ TableCalled(r[1]).elems[i].name = r[2]
                          /\ TableCalled(r[1]).elems[i].maxOccurs > 1
                    /\ (r[1] \o "_" \o r[2]) \notin TableNames(layers)
           /\ (use /\ IsTree(doc) /\ lyr = 1 /\ f # None) =>
                f[1].fields["tags"] =
                    LET occ == OccurrencesBelow(<< doc.root >>, << 0 >>, "tags", 1)
                    IN [i \in 1..Len(occ) |-> occ[i][2]]
           /\ ~ use =>
                /\ \A l \in 1..Len(layers) : \A i \in 1..Len(layers[l].elems) :
                       layers[l].elems[i].maxOccurs <= 1
                /\ \A r \in R :
                    /\ r[1] \in TableNames(layers)
                    /\ r[2] \notin FieldNames(TableCalled(r[1]))
                    /\ (r[1] \o "_" \o r[2]) \in TableNames(layers)
                    /\ FieldNames(TableCalled(r[1] \o "_" \o r[2])) = { ParentKey, "value" }
                    /\ (layers[lyr].name = r[1] \o "_" \o r[2] /\ reader = "eos") =>
                          /\ [i \in 1..Len(out) |->
                                 << out[i].fields[ParentKey], out[i].fields["value"] >>]
                               = OccurrencesBelow(ParentNodes(doc, r[1]),
                                                  KeysOf(doc, opts, r[1]), r[2], 1)
                          /\ Len(KeysOf(doc, opts, r[1])) = Len(ParentNodes(doc, r[1]))
                          /\ \A i, j \in 1..Len(out) :
                                 out[i].ogr_pkid = out[j].ogr_pkid => i = j
           /\ (doc = DOC_gmlas_test1_string_array /\ opts = OPTS_use_arrays_false
               /\ layers[lyr].name = "main_elt_string_array" /\ reader = "eos") =>
                use_arrays_false_checks(ds, TableNames(layers), Len(out))

C22_Witness ==
    /\ doc = DOC_gmlas_test1_string_array
    /\ opts = OPTS_use_arrays_false
    /\ ds = "open"
    /\ layers[lyr].name = "main_elt_string_array"
    /\ reader = "eos"
    /\ Len(out) = 2
    /\ \A i \in 1..2 : out[i].fields[ParentKey] = 1

(***************************************************************************)
(* Top-level table selection.                                              *)
(***************************************************************************)
TopLevelXPath(e) == PathText(<< Step(FALSE, e.ns, e.name) >>)

\* C23: with the default configuration and schemas that declare the
\* abstract-feature root, a top-level element has a table exactly when it is
\* concrete and a chain of substitution groups leads from it to the root.  A
\* concrete element outside that set has no table of its own, also when a
\* feature refers to it: its content is then carried by the table of the
\* feature (or, when the reference is repeated, by a child table of the
\* feature), and the feature holds no key of a row of it.  The test counts 1
\* layer.
C23_TopLevelTables ==
    (ds = "open" /\ opts.CONFIG_FILE = ConfigAbsent) =>
        LET entry == EntryRef(doc, opts)
            decls == SchemaElements(entry)
            F     == FeaturesOf(vsimem, entry)
            Top   == { l \in 1..Len(layers) :
                         \E i \in 1..Len(decls) : layers[l].xpath = TopLevelXPath(decls[i]) }
        IN /\ HasFeatureRoot(decls) =>
                /\ \A i \in 1..Len(decls) :
                       (\E l \in 1..Len(layers) : layers[l].xpath = TopLevelXPath(decls[i]))
                          <=> (~ decls[i].abstract /\ << decls[i].ns, decls[i].name >> \in F)
                /\ \A i \in 1..Len(decls) :
                       (~ decls[i].abstract /\ << decls[i].ns, decls[i].name >> \notin F) =>
                          decls[i].name \notin TableNames(layers)
                /\ \A l \in 1..Len(layers) \ Top :
                       \E i \in 1..Len(layers[l].elems) : layers[l].elems[i].name = ParentKey
           /\ (HasFeatureRoot(decls) /\ entry = PATH_features
               /\ << "", "a" >> \in F /\ << "", "c" >> \notin F
               /\ vsimem[entry].decls[2].content # << Simple("x") >>) =>
                IF vsimem[entry].decls[2].content[1].repeated
                THEN /\ "a_c" \in TableNames(layers)
                     /\ FieldNames(TableCalled("a_c")) = { ParentKey, "y" }
                     /\ FieldNames(TableCalled("a")) = {}
                ELSE /\ FieldNames(TableCalled("a")) = { "c_y" }
                     /\ (doc.present /\ f # None) => f[1].fields["c_y"] = "y1"
           /\ entry = PATH_instantiate_only_gml_feature =>
                /\ instantiate_only_gml_feature_checks(Len(layers))
                /\ TableNames(layers) = { "someFeature" }
                /\ FieldNames(layers[1]) = { "nonFeature_a" }
                /\ (doc.present /\ f # None) => f[1].fields["nonFeature_a"] = "a1"

C23_Witness ==
    /\ doc = NoDocument
    /\ opts = OpenOptions(PATH_instantiate_only_gml_feature, "", "", "", ConfigAbsent)
    /\ ds = "open"
    /\ TableNames(layers) = { "someFeature" }

(***************************************************************************)
(* SwapCoordinates.                                                        *)
(***************************************************************************)
\* The geometries of the feature read last that have a geometry field.
GeometriesRead ==
    IF ds = "open" /\ HasMembers(doc) /\ f # None
    THEN { g \in { doc.members[Len(out)][i] : i \in 1..Len(doc.members[Len(out)]) } :
             g.name \in FieldNames(layers[1]) }
    ELSE {}

TargetOf(g) ==
    layers[1].elems[CHOOSE e \in 1..Len(layers[1].elems) : layers[1].elems[e].name = g.name].srs

\* What the three settings of SWAP_COORDINATES read for a geometry.
Coordinates(g, swap) ==
    ReadMember(EffectiveConfiguration(SwapOptions(swap)), layers[1],
               FeatureDocument(doc.schemaLocation, << << g >> >>), 1).feature.fields[g.name]

\* The geometry is written in the reference system of its geometry field.
NotReprojected(g) == CodeOf(g.srsName) = TargetOf(g)

CannotReproject(g, swap) ==
    LET exchanged == IF swap = "" THEN LatitudeFirst(g.srsName) ELSE swap = "YES"
        written   == IF exchanged THEN Exchange(g.pos) ELSE g.pos
    IN /\ ~ NotReprojected(g)
       /\ \E i \in 1..Len(written) : ~ InDomain(written[i])

FailingIn(k) ==
    { i \in 1..Len(doc.members[k]) :
        /\ doc.members[k][i].name \in FieldNames(layers[1])
        /\ CannotReproject(doc.members[k][i], opts.SWAP_COORDINATES) }

RECURSIVE FailuresUpTo(_)
FailuresUpTo(k) == IF k = 0 THEN 0 ELSE FailuresUpTo(k - 1) + Cardinality(FailingIn(k))

\* C29: a geometry that cannot be reprojected leaves the geometry null in its
\* Feature, which is emitted all the same, and gives one ReprojectionFailed
\* diagnostic; nothing else is reported and nothing is fatal.  Every Feature
\* returned so far is the Feature its own member gives, whatever failed
\* before or after it, and the reader goes on to the end of the document:
\* one Feature per member.  In the test the feature after the reprojected
\* one is returned with a null geometry.
C29_ReprojectionFailure ==
    (ds = "open" /\ HasMembers(doc)) =>
        /\ Len(out) <= Len(doc.members)
        /\ reader # "failed"
        /\ reader = "eos" => Len(out) = Len(doc.members)
        /\ \A k \in 1..Len(out) :
              /\ out[k] = ReadMember(EffectiveConfiguration(opts), layers[1], doc, k).feature
              /\ \A i \in FailingIn(k) : out[k].fields[doc.members[k][i].name] = None
              /\ \A i \in 1..Len(doc.members[k]) \ FailingIn(k) :
                    doc.members[k][i].name \in FieldNames(layers[1]) =>
                       out[k].fields[doc.members[k][i].name] # None
        /\ Len(sink) = FailuresUpTo(Len(out))
        /\ \A i \in 1..Len(sink) : sink[i].class = "ReprojectionFailed"
        /\ (doc = DOC_geometryproperty_gml32 /\ opts = DefaultOptions) =>
              /\ (Len(out) = 2 /\ reader = "emitted") => reprojection_checks(f)
              /\ (Len(out) = 3 /\ reader = "emitted") => failed_reprojection_checks(f)
              /\ Len(out) = 3 => Len(sink) = 1

C29_Witness ==
    /\ doc = DOC_geometryproperty_gml32 /\ opts = DefaultOptions
    /\ ds = "open" /\ reader = "emitted" /\ Len(out) = 3
    /\ out[2].fields["geometryProperty"] = << << 3, 0 >> >>
    /\ f # None /\ f[1].fields["geometryProperty"] = None
    /\ sink = << Diagnostic("ReprojectionFailed", "geometryProperty") >>

(***************************************************************************)
(* Elements the class of the current frame does not model (4.4).           *)
(***************************************************************************)
\* The children of the root that the class neither models nor excludes.
UnexpectedIn(d, class) ==
    { i \in 1..Len(d.children) :
        /\ d.children[i].name \notin FieldNames(class)
        /\ \A k \in 1..Len(class.ignored) : class.ignored[k].name # d.children[i].name }

\* The document without them.
WithoutUnexpected(d, class) ==
    LET Modelled(c) == c.name \in FieldNames(class)
                          \/ \E k \in 1..Len(class.ignored) : class.ignored[k].name = c.name
    IN [d EXCEPT !.children = SelectSeq(d.children, Modelled)]

UnexpectedReports == { i \in 1..Len(sink) : sink[i].class = "UnexpectedElement" }

RootRead == /\ ds = "open" /\ doc.present /\ ~ IsTree(doc) /\ ~ HasMembers(doc)
            /\ doc.closed /\ lyr = 1 /\ reader \in { "emitted", "eos" }

\* C28 as stated: each element the class neither models nor excludes gives
\* one UnexpectedElement diagnostic.
C28_AsStated ==
    RootRead => Cardinality(UnexpectedReports) = Cardinality(UnexpectedIn(doc, layers[1]))

\* C28: when the root of a document holds elements its class neither models
\* nor excludes, the enclosing Feature is still returned, it is the Feature
\* of the document without these elements (no Field is set from them and no
\* row of another table comes of them), and the handler receives nothing
\* about them: no UnexpectedElement diagnostic whatever the options, and
\* without a validation setting exactly what the document without them
\* gives.  In the test the document with the undeclared element bar leaves
\* the last error message empty.
C28_UnexpectedElement ==
    RootRead =>
        LET class == layers[1]
            rest  == ReadRoot(class, WithoutUnexpected(doc, class), 1)
        IN /\ Len(out) = 1
           /\ out[1] = rest.feature
           /\ \A i \in UnexpectedIn(doc, class) :
                  doc.children[i].name \notin DOMAIN out[1].fields
           /\ UnexpectedReports = {}
           /\ NoValidationSetting(opts) => sink = rest.diags
           /\ (doc = DOC_validate /\ opts = DefaultOptions /\ reader = "eos") =>
                  validate_default_checks(ds, LastErrorMsg)

C28_Witness ==
    /\ RootRead /\ reader = "emitted"
    /\ doc = Document(PATH_validate, << Child("bar", "bar"), Child("foo", "foo_first") >>, TRUE)
    /\ opts = DefaultOptions
    /\ UnexpectedIn(doc, layers[1]) = { 1 }
    /\ f # None /\ f[1].fields["foo"] = "foo_first"
    /\ sink = <<>>

(***************************************************************************)
(* Containment and keys.                                                   *)
(***************************************************************************)
\* The child tables of the schemas read here: the table of the parent
\* element and the name of the child element.
Contained(t) ==
    CASE t = "first_composition" -> [parent |-> "first", name |-> "composition"]
      [] t = "main_item"         -> [parent |-> "main", name |-> "item"]
      [] t = "main_tags"         -> [parent |-> "main", name |-> "tags"]
      [] t = "main_item_values"  -> [parent |-> "main_item", name |-> "values"]

\* The elements of the document that have a row in table t, in document order.
ElementsOf(d, t) ==
    IF t = "main_item"
    THEN LET Item(k) == k.name = "item" IN SelectSeq(d.root.kids, Item)
    ELSE << d.root >>

RowsRead(t) ==
    LayerRows(EffectiveConfiguration(opts), TableCalled(t), doc,
              InstantiatedElements(SchemaElements(EntryRef(doc, opts))))

\* C25: every row read from a table with the column parent_ogr_pkid has it
\* set; row i is the row of the i-th occurrence of the child element in the
\* document, and its parent key is the key of the row that the table of
\* the parent returns for the element enclosing that occurrence; among the
\* rows of all tables, in the order their elements are closed, the row of
\* the child comes before the row of its parent.  A complete read returns
\* one row per occurrence.  In the test both features of first_composition
\* have parent_ogr_pkid set.
C25_Containment ==
    (ds = "open" /\ IsTree(doc) /\ ParentKey \in FieldNames(layers[lyr])) =>
        LET t       == layers[lyr].name
            c       == Contained(t)
            parents == ElementsOf(doc, c.parent)
            rows    == RowsRead(c.parent)
            occ     == OccurrencesBelow(parents, [j \in 1..Len(rows) |-> rows[j].ogr_pkid],
                                        c.name, 1)
            all     == EmittedRows(EffectiveConfiguration(opts), doc,
                                   InstantiatedElements(SchemaElements(EntryRef(doc, opts))))
        IN /\ Len(rows) = Len(parents)
           /\ Len(out) <= Len(occ)
           /\ reader = "eos" => Len(out) = Len(occ)
           /\ \A i \in 1..Len(out) :
                 /\ IsFieldSet(out[i], ParentKey)
                 /\ out[i].fields[ParentKey] = occ[i][1]
                 /\ \E a, b \in 1..Len(all) :
                       /\ a < b
                       /\ all[a].layer = t /\ all[a].ogr_pkid = out[i].ogr_pkid
                       /\ all[b].layer = c.parent
                       /\ all[b].ogr_pkid = out[i].fields[ParentKey]
           /\ (doc = DOC_composition_compositionPart /\ Len(out) = 2) =>
                 composition_junction_checks(out[1], out[2])

C25_Witness ==
    /\ ds = "open" /\ opts = OPTS_use_arrays_false
    /\ IsTree(doc) /\ Len(doc.root.kids) = 2
    /\ layers[lyr].name = "main_item_values"
    /\ reader = "eos" /\ Len(out) = 3
    /\ out[1].fields[ParentKey] # out[2].fields[ParentKey]
    /\ out[2].fields[ParentKey] = out[3].fields[ParentKey]
    /\ out[2].ogr_pkid # out[3].ogr_pkid

RECURSIVE IdsIn(_)
IdsIn(node) ==
    (IF node.id # "" THEN { node.id } ELSE {})
      \cup UNION { IdsIn(node.kids[i]) : i \in 1..Len(node.kids) }

\* The elements of the document that have a row in table t, in document
\* order: the root, or children of the root.
LinkSources(d, t) ==
    IF d.root.name = t THEN << d.root >>
    ELSE LET Mine(k) == k.name = t IN SelectSeq(d.root.kids, Mine)

\* The references of the element src that the link Field l holds, as places
\* among its children.
ReferencesOf(src, l) ==
    { k \in 1..Len(src.kids) : src.kids[k].name \o "_pkid" = l.name }

\* C27: a document with links is read to its end whatever its links refer
\* to: the reader never fails, a table with link Fields returns one row per
\* element, and the handler receives LinkUnresolved diagnostics only, none
\* from a table without link Fields.  Once the table has been read
\* to the end of the document, a link Field of a row is null when its
\* element holds no reference; it holds the key of the row whose element
\* bears the identifier referred to when an element of the document bears
\* it, before or after the reference; otherwise it is null and the handler
\* has received LinkUnresolved for that identifier, once per such link.  In
\* the test the first feature of main_elt holds #BAZ, BAZ and #BAW.
C27_LinkResolution ==
    (ds = "open" /\ IsTree(doc) /\ HasLinks(layers)) =>
        LET T    == layers[lyr]
            L    == SelectSeq(T.elems, IsLinkField)
            src  == LinkSources(doc, T.name)
            ids  == IdsIn(doc.root)
            Referred(i, l) == src[i].kids[Last(ReferencesOf(src[i], L[l]))].text
            lost == { p \in (1..Len(src)) \X (1..Len(L)) :
                        /\ ReferencesOf(src[p[1]], L[p[2]]) # {}
                        /\ Referred(p[1], p[2]) \notin ids }
        IN /\ reader # "failed"
           /\ \A s \in 1..Len(sink) : sink[s].class = "LinkUnresolved"
           /\ L = <<>> => sink = <<>>
           /\ L # <<>> => Len(out) <= Len(src)
           /\ (L # <<>> /\ reader = "eos") =>
                 /\ Len(out) = Len(src)
                 /\ Len(sink) = Cardinality(lost)
                 /\ \A i \in 1..Len(out) : \A l \in 1..Len(L) :
                       LET v == out[i].fields[L[l].name] IN
                       IF ReferencesOf(src[i], L[l]) = {} THEN v = Null
                       ELSE IF Referred(i, l) \in ids
                       THEN \E r \in 1..Len(RowsRead(L[l].link)) :
                               /\ RowsRead(L[l].link)[r].fields["id"] = Referred(i, l)
                               /\ v = RowsRead(L[l].link)[r].ogr_pkid
                       ELSE /\ v = Null
                            /\ \E s \in 1..Len(sink) :
                                   sink[s] = Diagnostic("LinkUnresolved", Referred(i, l))
           /\ (doc = DOC_gmlas_test_targetelement /\ T.name = "main_elt"
               /\ reader = "emitted" /\ Len(out) = 1) =>
                 gml_Reference_checks(Len(layers), f[1])

C27_Witness ==
    /\ ds = "open"
    /\ doc = TreeDocument(PATH_links,
                 Node("", "list", "", "",
                      << LinkNode("BAZ", "BAW"), LinkNode("BAW", "missing") >>))
    /\ layers[lyr].name = "target_elt"
    /\ reader = "eos" /\ Len(out) = 2
    /\ out[1].fields["reference_pkid"] = "BAW"
    /\ out[2].fields["reference_pkid"] = Null
    /\ sink = << Diagnostic("LinkUnresolved", "missing") >>

(***************************************************************************)
(* Schema graphs with cycles.                                              *)
(***************************************************************************)
\* The schema references of an open in the order they are resolved.
ResolvedBy(o) ==
    ResolveAll(<< o.XSD >>, <<>>, EffectiveConfiguration(o), server,
               [cache |-> {}, net |-> <<>>])

\* What an open of a schema graph has given once it has returned.
GraphBuilt ==
    LET entry == opts.XSD
        r     == ResolvedBy(opts)
        R     == Reachable(vsimem, entry)
        gml   == PATH_fake_gml32 \in R
        a     == vsimem[PATH_graph_a].decls[1]
        b     == vsimem[PATH_graph_b].decls[1]
        c     == vsimem[PATH_graph_c].decls[1]
    IN /\ ds = "open" /\ sink = <<>>
       /\ r.error = ""
       /\ r.loaded[1] = entry
       /\ \A i, j \in 1..Len(r.loaded) : r.loaded[i] = r.loaded[j] => i = j
       /\ { r.loaded[i] : i \in 1..Len(r.loaded) } = R
       /\ Len(layers) >= 1
       /\ entry = PATH_graph_a =>
             /\ "a" \in TableNames(layers)
             /\ ~ gml =>
                   /\ "b" \in TableNames(layers) <=> PATH_graph_b \in R
                   /\ "c" \in TableNames(layers) <=> PATH_graph_c \in R
             /\ gml =>
                   /\ "b" \notin TableNames(layers) /\ "c" \notin TableNames(layers)
                   /\ (a.content = << Ref("", "b", FALSE) >>
                          /\ b.content = << Ref("", "c", FALSE) >>) =>
                         FieldNames(TableCalled("a")) =
                            IF c.content = << Simple("z") >> THEN { "b_c_z" } ELSE {}
                   /\ (a.content = << Ref("", "b", FALSE) >>
                          /\ b.content = << Ref("", "b", FALSE) >>) =>
                         FieldNames(TableCalled("a")) = {}
       /\ entry = PATH_instantiate_only_gml_feature =>
             instantiate_only_gml_feature_checks(Len(layers))

\* C30: the open of every schema graph returns, with a dataset, whatever
\* cycles the graph has: files that include themselves or one another,
\* elements that refer to themselves or to one another.  The references
\* resolved by the open are the entry schema first and then exactly the
\* files reachable from it through the includes, each of them once, however
\* often it is included.  The tables are built from these files only; an
\* element that is replaced by its content is not replaced again inside
\* itself.  The test counts 1 layer for its schema.
C30_BuilderTerminates == ds # "unopened" => GraphBuilt

C30_Witness ==
    /\ ds = "open"
    /\ vsimem = GraphFiles(TRUE, << PATH_graph_b, PATH_graph_b >>,
                           << PATH_graph_c, PATH_graph_a >>,
                           << PATH_graph_c, PATH_graph_b >>,
                           << Ref("", "b", FALSE) >>, << Ref("", "c", FALSE) >>,
                           << Ref("", "b", FALSE) >>)
    /\ ResolvedBy(opts).loaded
          = << PATH_graph_a, PATH_fake_gml32, PATH_graph_b, PATH_graph_c >>
    /\ TableNames(layers) = { "a" }
    /\ FieldNames(layers[1]) = {}

====
